---- MODULE Spec2Model ----
(***************************************************************************)
(* A model of src/src/projectExporter.ts (class ProjectExporter): the      *)
(* path filters, the two-pass walker of collectFiles, the structure        *)
(* traversal of getProjectStructure, formatOutput and the control flow of  *)
(* exportProject.                                                          *)
(*                                                                         *)
(* Strings are sequences of one-character strings, so that endsWith,       *)
(* toLowerCase, RegExp.test, localeCompare and JSON escaping are computed  *)
(* character by character as the code computes them.                       *)
(***************************************************************************)
EXTENDS Integers, Sequences, FiniteSets, TLC

(***************************************************************************)
(* String helpers (JavaScript String methods used by the source).          *)
(***************************************************************************)

UpperCaseLetters ==
    <<"A","B","C","D","E","F","G","H","I","J","K","L","M",
      "N","O","P","Q","R","S","T","U","V","W","X","Y","Z">>

LowerCaseLetters ==
    <<"a","b","c","d","e","f","g","h","i","j","k","l","m",
      "n","o","p","q","r","s","t","u","v","w","x","y","z">>

\* The index of character c in the sequence s, 0 when absent.
IndexOf(s, c) ==
    IF \E i \in 1..Len(s) : s[i] = c
    THEN CHOOSE i \in 1..Len(s) : s[i] = c /\ \A j \in 1..(i-1) : s[j] # c
    ELSE 0

\* String.prototype.toLowerCase on one character.
LowerChar(c) ==
    IF IndexOf(UpperCaseLetters, c) > 0
    THEN LowerCaseLetters[IndexOf(UpperCaseLetters, c)]
    ELSE c

\* String.prototype.toLowerCase.
toLowerCase(s) == [i \in 1..Len(s) |-> LowerChar(s[i])]

\* String.prototype.endsWith.
endsWith(s, suffix) ==
    /\ Len(suffix) <= Len(s)
    /\ SubSeq(s, Len(s) - Len(suffix) + 1, Len(s)) = suffix

\* The concatenation of a sequence of strings, each followed by sep except the last
\* (Array.prototype.join).
RECURSIVE join(_, _)
join(parts, sep) ==
    IF Len(parts) = 0 THEN <<>>
    ELSE IF Len(parts) = 1 THEN parts[1]
    ELSE parts[1] \o sep \o join(Tail(parts), sep)

(***************************************************************************)
(* The static tables of ProjectExporter.                                   *)
(***************************************************************************)

defaultIgnore ==
    << <<"*","*","/","n","o","d","e","_","m","o","d","u","l","e","s","/","*","*">>,
       <<"*","*","/",".","g","i","t","/","*","*">>,
       <<"*","*","/","d","i","s","t","/","*","*">>,
       <<"*","*","/","b","u","i","l","d","/","*","*">>,
       <<"*","*","/",".","n","e","x","t","/","*","*">>,
       <<"*","*","/","c","o","v","e","r","a","g","e","/","*","*">>,
       <<"*","*","/",".","v","s","c","o","d","e","/","*","*">>,
       <<"*","*","/",".","i","d","e","a","/","*","*">>,
       <<"*","*","/","o","u","t","/","*","*">>,
       <<"*","*","/","b","i","n","/","*","*">>,
       <<"*","*","/","*",".","l","o","c","k">>,
       <<"*","*","/",".","D","S","_","S","t","o","r","e">>,
       <<"*","*","/","*",".","l","o","g">>,
       <<"*","*","/","*",".","m","a","p">>,
       <<"*","*","/","*",".","m","i","n",".","j","s">>,
       <<"*","*","/","*",".","m","i","n",".","c","s","s">>,
       <<"*","*","/","v","e","n","d","o","r","/","*","*">>,
       <<"*","*","/","p","u","b","l","i","c","/","a","s","s","e","t","s","/","*","*">>,
       <<"*","*","/",".","c","a","c","h","e","/","*","*">> >>

binaryExtensions ==
    { <<".","j","p","g">>, <<".","j","p","e","g">>, <<".","p","n","g">>,
      <<".","g","i","f">>, <<".","i","c","o">>, <<".","p","d","f">>,
      <<".","e","x","e">>, <<".","d","l","l">>, <<".","s","o">>,
      <<".","d","y","l","i","b">>, <<".","b","i","n">>,
      <<".","z","i","p">>, <<".","t","a","r">>, <<".","g","z">>,
      <<".","7","z">>, <<".","r","a","r">>,
      <<".","w","o","f","f">>, <<".","w","o","f","f","2">>,
      <<".","t","t","f">>, <<".","e","o","t">>,
      <<".","m","p","3">>, <<".","m","p","4">>, <<".","a","v","i">>,
      <<".","m","o","v">>,
      <<".","s","q","l","i","t","e">>, <<".","d","b">>, <<".","d","a","t">> }

quickIgnoreList ==
    { <<"n","o","d","e","_","m","o","d","u","l","e","s">>,
      <<".","g","i","t">>,
      <<"d","i","s","t">>,
      <<"b","u","i","l","d">>,
      <<".","n","e","x","t">>,
      <<"c","o","v","e","r","a","g","e">>,
      <<".","v","s","c","o","d","e">>,
      <<".","i","d","e","a">> }

\* 1024 * 1024
maxFileSizeBytes == 1048576

\* isBinaryPath: some binary extension ends the lower-cased path.
isBinaryPath(filePath) ==
    \E ext \in binaryExtensions : endsWith(toLowerCase(filePath), ext)

isQuickIgnored(filename) == filename \in quickIgnoreList

languageMap ==
    { << <<".","j","s">>, <<"j","a","v","a","s","c","r","i","p","t">> >>,
      << <<".","t","s">>, <<"t","y","p","e","s","c","r","i","p","t">> >>,
      << <<".","j","s","x">>, <<"j","a","v","a","s","c","r","i","p","t">> >>,
      << <<".","t","s","x">>, <<"t","y","p","e","s","c","r","i","p","t">> >>,
      << <<".","p","y">>, <<"p","y","t","h","o","n">> >>,
      << <<".","j","a","v","a">>, <<"j","a","v","a">> >>,
      << <<".","h","t","m","l">>, <<"h","t","m","l">> >>,
      << <<".","c","s","s">>, <<"c","s","s">> >>,
      << <<".","s","c","s","s">>, <<"s","c","s","s">> >>,
      << <<".","j","s","o","n">>, <<"j","s","o","n">> >>,
      << <<".","m","d">>, <<"m","a","r","k","d","o","w","n">> >>,
      << <<".","x","m","l">>, <<"x","m","l">> >>,
      << <<".","y","a","m","l">>, <<"y","a","m","l">> >>,
      << <<".","y","m","l">>, <<"y","a","m","l">> >>,
      << <<".","s","h">>, <<"s","h","e","l","l">> >>,
      << <<".","b","a","s","h">>, <<"s","h","e","l","l">> >>,
      << <<".","p","h","p">>, <<"p","h","p">> >>,
      << <<".","r","b">>, <<"r","u","b","y">> >>,
      << <<".","g","o">>, <<"g","o">> >>,
      << <<".","r","s">>, <<"r","u","s","t">> >>,
      << <<".","c","p","p">>, <<"c","p","p">> >>,
      << <<".","c">>, <<"c">> >>,
      << <<".","c","s">>, <<"c","s","h","a","r","p">> >>,
      << <<".","v","u","e">>, <<"v","u","e">> >>,
      << <<".","s","v","e","l","t","e">>, <<"s","v","e","l","t","e">> >>,
      << <<".","s","q","l">>, <<"s","q","l">> >>,
      << <<".","g","r","a","p","h","q","l">>, <<"g","r","a","p","h","q","l">> >>,
      << <<".","p","r","o","t","o">>, <<"p","r","o","t","o","b","u","f">> >> }

\* The part of a path after its last "/" (path.basename).
basename(p) ==
    LET slashes == {i \in 1..Len(p) : p[i] = "/"}
        last == IF slashes = {} THEN 0
                ELSE CHOOSE i \in slashes : \A j \in slashes : j <= i
    IN SubSeq(p, last + 1, Len(p))

\* path.extname: from the last "." of the basename to its end; empty when the
\* basename has no "." or its only "." is its first character.
extname(p) ==
    LET b == basename(p)
        dots == {i \in 1..Len(b) : b[i] = "."}
        last == IF dots = {} THEN 0
                ELSE CHOOSE i \in dots : \A j \in dots : j <= i
    IN IF last <= 1 THEN <<>> ELSE SubSeq(b, last, Len(b))

\* getLanguageId: the tag of the lower-cased extension, or the empty string.
getLanguageId(filePath) ==
    LET ext == toLowerCase(extname(filePath))
    IN IF \E e \in languageMap : e[1] = ext
       THEN (CHOOSE e \in languageMap : e[1] = ext)[2]
       ELSE <<>>

(***************************************************************************)
(* The pattern check: new RegExp(pattern.replace(/\*\*/g, '.*')).test(p).  *)
(***************************************************************************)

\* pattern.replace(/\*\*/g, '.*'): each "**", left to right, becomes ".*".
RECURSIVE replaceDoubleStar(_)
replaceDoubleStar(pattern) ==
    IF Len(pattern) < 2 THEN pattern
    ELSE IF pattern[1] = "*" /\ pattern[2] = "*"
         THEN <<".", "*">> \o replaceDoubleStar(SubSeq(pattern, 3, Len(pattern)))
         ELSE <<pattern[1]>> \o replaceDoubleStar(Tail(pattern))

\* Characters "." does not match in a JavaScript regular expression.
LineTerminators == {"\n", "\r"}

\* The atoms of a regular expression source made of literal characters, "." and a
\* postfix "*": each atom is a character (or any character), possibly repeated.
RECURSIVE RegExpAtoms(_)
RegExpAtoms(source) ==
    IF Len(source) = 0 THEN <<>>
    ELSE LET starred == Len(source) >= 2 /\ source[2] = "*"
             atom == [ch |-> source[1], any |-> source[1] = ".", star |-> starred]
         IN <<atom>> \o RegExpAtoms(SubSeq(source, IF starred THEN 3 ELSE 2, Len(source)))

AtomMatches(atom, c) ==
    IF atom.any THEN c \notin LineTerminators ELSE c = atom.ch

\* Whether atoms[k..] match a prefix of s[j..].
RECURSIVE MatchHere(_, _, _, _)
MatchHere(atoms, k, s, j) ==
    IF k > Len(atoms) THEN TRUE
    ELSE IF atoms[k].star
         THEN \/ MatchHere(atoms, k + 1, s, j)
              \/ /\ j <= Len(s)
                 /\ AtomMatches(atoms[k], s[j])
                 /\ MatchHere(atoms, k, s, j + 1)
         ELSE /\ j <= Len(s)
              /\ AtomMatches(atoms[k], s[j])
              /\ MatchHere(atoms, k + 1, s, j + 1)

\* RegExp.prototype.test of an unanchored expression: a match may start anywhere.
RegExpTest(source, s) ==
    LET atoms == RegExpAtoms(source)
    IN \E start \in 1..(Len(s) + 1) : MatchHere(atoms, 1, s, start)

\* this.defaultIgnore.some(pattern => new RegExp(...).test(relativePath))
matchesDefaultIgnore(relativePath) ==
    \E n \in 1..Len(defaultIgnore) :
        RegExpTest(replaceDoubleStar(defaultIgnore[n]), relativePath)

(***************************************************************************)
(* The directory tree the export runs on.  A directory entry is a record:  *)
(* its name, what stat reports (isDir, size, mtime), what readFile returns *)
(* (content), the entries readdir lists (items, in listing order) and the  *)
(* I/O operation, if any, that fails on it:                                *)
(*   fault = "stat"  stat and statSync throw (a dangling link),            *)
(*   fault = "io"    readFile (a file) or readdir (a directory) throws     *)
(*                   (no read permission),                                 *)
(*   fault = "report" the progress sink throws on the report the scanning  *)
(*                   pass makes for the entry.                             *)
(***************************************************************************)

\* Entries a directory may list, at most.
MaxRootItems == 2
MaxDirItems == 2

rootPath == <<"/", "w">>

\* The modification time of the entries: 2024-01-01T12:34:56.789Z, as the day
\* since the epoch and the millisecond of that day.
entryMtime == [day |-> 19723, ms |-> 45296789]

\* A file of the tree; its content is the first character of its name.
FileEntry(name, size, fault) ==
    [name |-> name, isDir |-> FALSE, size |-> size, mtime |-> entryMtime,
     content |-> <<name[1]>>, fault |-> fault, items |-> <<>>]

DirEntry(name, items, fault) ==
    [name |-> name, isDir |-> TRUE, size |-> 0, mtime |-> entryMtime,
     content |-> <<>>, fault |-> fault, items |-> items]

\* The sequences of at most n entries of pool, no name listed twice.
SeqsOf(pool, n) ==
    UNION { { q \in [1..k -> pool] :
                \A i, j \in 1..k : i # j => q[i].name # q[j].name } : k \in 0..n }

FileNames ==
    { <<"a",".","t","s">>, <<"C",".","P","N","G">>, <<"x",".","l","o","g">>,
      <<"e",".","t","s">>, <<"u",".","t","s">> }

DirNames == { <<"s","r","c">>, <<"d","i","s","t">> }

\* Files: one at the size threshold and one byte over it, a binary one, a
\* pattern-ignored one, one whose stat fails and one whose read fails.
FilePool ==
    { FileEntry(<<"a",".","t","s">>, maxFileSizeBytes, "none"),
      FileEntry(<<"a",".","t","s">>, maxFileSizeBytes + 1, "none"),
      FileEntry(<<"C",".","P","N","G">>, 2, "none"),
      FileEntry(<<"x",".","l","o","g">>, 1, "none"),
      FileEntry(<<"e",".","t","s">>, 0, "stat"),
      FileEntry(<<"u",".","t","s">>, 3, "io") }

\* Directories: src with any listing, src unreadable, and the quick-ignored dist.
DirPool ==
    { DirEntry(<<"s","r","c">>, items, "none") : items \in SeqsOf(FilePool, MaxDirItems) }
    \cup { DirEntry(<<"s","r","c">>, <<>>, "io") }
    \cup { DirEntry(<<"d","i","s","t">>, <<FileEntry(<<"a",".","t","s">>, 3, "none")>>, "none") }

\* The root directories: readable with any listing, or unreadable.
Trees ==
    { DirEntry(<<>>, items, "none") : items \in SeqsOf(FilePool \cup DirPool, MaxRootItems) }
    \cup { DirEntry(<<>>, <<>>, "io") }

\* The entry of directory d named n.
Child(d, n) == CHOOSE e \in {d.items[i] : i \in 1..Len(d.items)} : e.name = n

\* The entry at path p (a sequence of names) under directory d.
RECURSIVE EntryAt(_, _)
EntryAt(d, p) == IF Len(p) = 0 THEN d ELSE EntryAt(Child(d, Head(p)), Tail(p))

\* path.relative(rootPath, path.join(dir, item)) for dir given as a sequence of names.
relativePathOf(p) == join(p, <<"/">>)

\* path.join(rootPath, ...p)
fullPathOf(p) == IF Len(p) = 0 THEN rootPath ELSE rootPath \o <<"/">> \o relativePathOf(p)

\* The trees getProjectStructure is run on by itself: names of both cases, listed
\* in any order.
MaxSortItems == 3

SortFileNames ==
    { <<"a",".","t","s">>, <<"B",".","t","s">>, <<"b",".","m","d">>,
      <<"C",".","P","N","G">> }

SortDirNames == { <<"l","i","b">>, <<"D","o","c">> }

SortPool ==
    { FileEntry(n, 3, "none") : n \in SortFileNames }
    \cup { FileEntry(<<"e",".","t","s">>, 0, "stat") }
    \cup { DirEntry(n, items, "none") :
              n \in SortDirNames,
              items \in { <<>>,
                          << FileEntry(<<"B",".","t","s">>, 3, "none"),
                             FileEntry(<<"a",".","t","s">>, 3, "none") >> } }

SortTrees ==
    { DirEntry(<<>>, items, "none") : items \in SeqsOf(SortPool, MaxSortItems) }

\* The trees the pattern check is exercised on: names that hold the letters of an
\* ignore pattern without its punctuation, at the root and one level down.
MaxPatternItems == 2

PatternFileNames == { <<"d","i","a","l","o","g",".","t","s">>, <<"x",".","l","o","g">>, <<"a",".","t","s">>, <<"r","o","a","d","m","a","p",".","m","d">> }

PatternDirNames == { <<"l","i","b">> }

PatternPool ==
    { FileEntry(n, 3, "none") : n \in PatternFileNames }
    \cup { DirEntry(<<"l","i","b">>, items, "none") :
              items \in { <<>>, <<FileEntry(<<"d","i","a","l","o","g",".","t","s">>, 3, "none")>>,
                          <<FileEntry(<<"x",".","l","o","g">>, 3, "none"),
                            FileEntry(<<"a",".","t","s">>, 3, "none")>> } }

PatternTrees ==
    { DirEntry(<<>>, items, "none") : items \in SeqsOf(PatternPool, MaxPatternItems) }

\* The trees of an export whose progress sink may throw: no I/O operation fails
\* on them.
MaxSinkItems == 2

SinkFilePool ==
    { FileEntry(<<"a",".","t","s">>, maxFileSizeBytes, "none"),
      FileEntry(<<"a",".","t","s">>, 3, "report"),
      FileEntry(<<"u",".","t","s">>, 3, "none"),
      FileEntry(<<"u",".","t","s">>, 3, "report"),
      FileEntry(<<"C",".","P","N","G">>, 2, "none") }

SinkPool ==
    SinkFilePool
    \cup { DirEntry(<<"s","r","c">>, items, fault) :
              items \in SeqsOf(SinkFilePool, MaxSinkItems), fault \in {"none", "report"} }

SinkTrees ==
    { DirEntry(<<>>, items, "none") : items \in SeqsOf(SinkPool, MaxSinkItems) }

\* The trees two interleaved exports run on: no I/O operation fails on them.
MaxTwoItems == 1

TwoPool ==
    { FileEntry(<<"a",".","t","s">>, 3, "none"),
      FileEntry(<<"u",".","t","s">>, maxFileSizeBytes + 1, "none"),
      DirEntry(<<"s","r","c">>, <<FileEntry(<<"u",".","t","s">>, 3, "none")>>, "none") }

TwoTrees ==
    { DirEntry(<<>>, items, "none") : items \in SeqsOf(TwoPool, MaxTwoItems) }

\* The trees termination is checked on: a readable file, one whose stat fails,
\* one whose read fails, src with any listing of them or unreadable, and the
\* quick-ignored dist.
MaxLiveItems == 2

LiveFilePool ==
    { FileEntry(<<"a",".","t","s">>, 3, "none"),
      FileEntry(<<"e",".","t","s">>, 0, "stat"),
      FileEntry(<<"u",".","t","s">>, 3, "io") }

LivePool ==
    LiveFilePool
    \cup { DirEntry(<<"s","r","c">>, items, "none") :
              items \in SeqsOf(LiveFilePool, MaxLiveItems) }
    \cup { DirEntry(<<"s","r","c">>, <<>>, "io"), DirEntry(<<"s","r","c">>, <<>>, "stat") }
    \cup { DirEntry(<<"d","i","s","t">>, <<FileEntry(<<"a",".","t","s">>, 3, "none")>>, "none") }

LiveTrees ==
    { DirEntry(<<>>, items, "none") : items \in SeqsOf(LivePool, MaxLiveItems) }
    \cup { DirEntry(<<>>, <<>>, "io") }

\* Every relative path of the trees.
RelPaths ==
    LET dirs == DirNames \cup SortDirNames \cup PatternDirNames
        names == FileNames \cup SortFileNames \cup PatternFileNames \cup dirs
    IN names \cup { d \o <<"/">> \o n : d \in dirs, n \in names }

\* The result of the pattern check on each relative path (the check is a pure
\* function of the path: it is evaluated once per path).
ignoreCache == [p \in RelPaths |-> matchesDefaultIgnore(p)]

isPatternIgnored(relativePath) == ignoreCache[relativePath]

\* isBinaryPath and getLanguageId of the full path of each relative path (pure
\* functions of the path, evaluated once per path).
binaryCache == [p \in RelPaths |-> isBinaryPath(rootPath \o <<"/">> \o p)]

languageCache == [p \in RelPaths |-> getLanguageId(rootPath \o <<"/">> \o p)]

(***************************************************************************)
(* The state of one exportProject invocation.                              *)
(***************************************************************************)
VARIABLES
    fs,             \* the directory tree under rootPath
    hasWorkspace,   \* vscode.workspace.workspaceFolders is defined
    pc,             \* the position of exportProject
    format,         \* the format picked, "undefined" before
    token,          \* token.isCancellationRequested
    stack,          \* the frames of the recursion in progress (countFiles,
                    \* collectFiles' traverse or getProjectStructure's traverse)
    files,          \* collectFiles: const files: FileData[]
    scannedFiles,   \* collectFiles: let scannedFiles
    totalFiles,     \* collectFiles: let totalFiles
    items,          \* getProjectStructure: const items: string[]
    reports,        \* the calls of progress.report, in order
    notifications,  \* the messages shown (showInformationMessage, showErrorMessage)
    formatted,      \* the arguments of each formatOutput call, in order
    written,        \* the documents written by fsPromises.writeFile, in order
    outcome,        \* how the invocation ended, "none" before
    rejected,       \* the promise of exportProject is rejected
    warnings,       \* the calls of console.warn, in order
    cancelledAt,    \* the position at which the token was cancelled, "never" before
    quick,          \* the state of a quickExport invocation
    parked,         \* the locals of a second exportProject invocation of the same
                    \* ProjectExporter while the other invocation runs
    current,        \* the exportProject invocation that runs (1 or 2)
    atCancel        \* history: what collectFiles had done at the moment the
                    \* token was cancelled

vars == <<fs, hasWorkspace, pc, format, token, stack, files, scannedFiles,
          totalFiles, items, reports, notifications, formatted, written,
          outcome, rejected, warnings, cancelledAt, quick, parked, current, atCancel>>

Formats == {"Markdown", "JSON", "Text"}

\* The document and selection read when there is no active editor.
NoEditor ==
    [fileName |-> <<>>, languageId |-> <<>>, text |-> <<>>,
     selectionIsEmpty |-> TRUE, selected |-> <<>>]

\* quickExport has not been invoked.
NoQuickExport ==
    [pc |-> "idle", hasEditor |-> FALSE, editor |-> NoEditor, format |-> "undefined",
     prompts |-> 0,
     clipboard |-> <<>>, notifications |-> <<>>, rejected |-> FALSE]

\* exportProject has not been invoked a second time.
NoOtherExport == [pc |-> "idle"]

\* A frame of a recursive traversal: the function, the directory (a sequence of
\* names under the root), the array readdir returned, the index of the current
\* entry, the await the call is suspended at, and the structure prefix depth.
Frame(fn, dir, depth) ==
    [fn |-> fn, dir |-> dir, list |-> <<>>, i |-> 1, at |-> "readdir", depth |-> depth]

Top == stack[Len(stack)]
Pop(stk) == SubSeq(stk, 1, Len(stk) - 1)
SetTop(stk, f) == [stk EXCEPT ![Len(stk)] = f]

\* The names readdir returns for an entry, in listing order.
Names(d) == [k \in 1..Len(d.items) |-> d.items[k].name]

\* The current item of a frame, its path and its entry.
ItemOf(f) == f.list[f.i]
ItemPath(f) == Append(f.dir, ItemOf(f))
ItemEntry(f) == EntryAt(fs, ItemPath(f))

\* A loop that goes back to its head without taking the next entry.
sameItem(f) == [f EXCEPT !.at = "loop"]

\* The frame moved to its next loop iteration (continue, or the end of the body).
NextItem(f) == [f EXCEPT !.i = f.i + 1, !.at = "loop"]

\* A traverse of collectFiles without its try and catch.
traverseRethrows == FALSE

\* try { ... } catch (error) { console.warn(...) } wraps the whole body of countFiles
\* and of collectFiles' traverse; getProjectStructure's traverse has no try.
countFilesCatches == TRUE
traverseCatches == TRUE
structureCatches == FALSE

Catches(fn) ==
    CASE fn = "countFiles" -> countFilesCatches
      [] fn = "traverse" -> traverseCatches
      [] fn = "structure" -> structureCatches

\* An exception thrown in the top frame reaches exportProject when no frame
\* catches it: the frames of a traversal all run the same function.
Escapes(stk) == ~Catches(stk[Len(stk)].fn)

\* The stack after an exception thrown in the top frame: the frame that catches it
\* returns normally; an exception nothing catches unwinds every frame.
Unwind(stk) == IF Escapes(stk) THEN <<>> ELSE Pop(stk)

\* The token has not been cancelled.
NoCancellation == [files |-> 0, scannedFiles |-> 0, totalFiles |-> 0, busy |-> "no"]

TypeOK ==
    /\ hasWorkspace \in BOOLEAN
    /\ pc \in {"start", "pickFormat", "saveDialog", "counting", "scanning",
               "structure", "write", "done"}
    /\ format \in Formats \cup {"undefined"}
    /\ token \in BOOLEAN
    /\ scannedFiles \in Nat
    /\ totalFiles \in Nat
    /\ outcome \in {"none", "completed", "cancelled", "failed", "dismissed", "noWorkspace"}
    /\ rejected \in BOOLEAN
    /\ cancelledAt \in {"never", "counting", "scanning", "structure", "write"}
    /\ atCancel \in [files : Nat, scannedFiles : Nat, totalFiles : Nat,
                      busy : {"no", "stat", "read"}]

Init ==
    /\ hasWorkspace \in BOOLEAN
    /\ fs \in (IF hasWorkspace THEN Trees ELSE {DirEntry(<<>>, <<>>, "io")})
    /\ pc = "start"
    /\ format = "undefined"
    /\ token = FALSE
    /\ stack = <<>>
    /\ files = <<>>
    /\ scannedFiles = 0
    /\ totalFiles = 0
    /\ items = <<>>
    /\ reports = <<>>
    /\ notifications = <<>>
    /\ formatted = <<>>
    /\ written = <<>>
    /\ outcome = "none"
    /\ rejected = FALSE
    /\ warnings = <<>>
    /\ cancelledAt = "never"
    /\ quick = NoQuickExport
    /\ parked = NoOtherExport
    /\ current = 1
    /\ atCancel = NoCancellation

(***************************************************************************)
(* exportProject, up to the start of collectFiles.                         *)
(***************************************************************************)

\* A catch of exportProject that shows the message and does not throw again.
catchSwallows == FALSE

\* throw error, the last statement of the catch of exportProject.
catchRethrows == TRUE

\* The catch of exportProject (showErrorMessage, then throw error): the export
\* has failed and the promise is rejected.
ExportFailed(cause) ==
    /\ pc' = "done"
    /\ outcome' = "failed"
    /\ rejected' = catchRethrows
    /\ notifications' = Append(notifications,
                               [kind |-> "error", text |-> "Export failed",
                                cause |-> cause, during |-> pc])

\* The text of the console.warn in the catch of a traversal function.
CatchWarning(fn) ==
    IF fn = "countFiles" THEN "Error counting files in" ELSE "Error processing directory"

\* An exception thrown in the top frame of the traversal in progress: the catch of
\* the function warns and the function returns, or the exception reaches the
\* catch of exportProject.
Raise(cause) ==
    /\ stack' = Unwind(stack)
    /\ IF Escapes(stack)
       THEN ExportFailed(cause) /\ UNCHANGED warnings
       ELSE /\ warnings' = Append(warnings, [text |-> CatchWarning(Top.fn),
                                             path |-> Top.dir, cause |-> cause])
            /\ UNCHANGED <<pc, outcome, rejected, notifications>>

\* An exportProject that goes on without looking at workspaceFolders.
workspaceNeverChecked(folders) == TRUE

\* The test !workspaceFolders fails: a workspace folder is open.
workspaceOpen(folders) == folders

\* if (!workspaceFolders) throw new Error('No workspace folder open')
ExportStart ==
    /\ pc = "start"
    /\ IF workspaceOpen(hasWorkspace)
       THEN /\ pc' = "pickFormat"
            /\ UNCHANGED <<outcome, rejected>>
       ELSE /\ pc' = "done"
            /\ outcome' = "noWorkspace"
            /\ rejected' = TRUE
    /\ UNCHANGED <<fs, hasWorkspace, format, token, stack, files, scannedFiles,
                   totalFiles, items, reports, notifications, formatted, written,
                   warnings, cancelledAt>>
    /\ UNCHANGED <<quick, parked, current, atCancel>>

\* showQuickPick: a format, or undefined when the pick is dismissed.
PickFormat ==
    /\ pc = "pickFormat"
    /\ \E f \in Formats \cup {"undefined"} :
        /\ format' = f
        /\ IF f = "undefined"
           THEN pc' = "done" /\ outcome' = "dismissed"
           ELSE pc' = "saveDialog" /\ UNCHANGED outcome
    /\ UNCHANGED <<fs, hasWorkspace, token, stack, files, scannedFiles, totalFiles,
                   items, reports, notifications, formatted, written, rejected,
                   warnings, cancelledAt>>
    /\ UNCHANGED <<quick, parked, current, atCancel>>

\* showSaveDialog: an output path, or undefined; with a path, withProgress starts
\* its task: the first report, then collectFiles and its countFiles(rootPath).
SaveDialog ==
    /\ pc = "saveDialog"
    /\ \E chosen \in BOOLEAN :
        IF chosen
        THEN /\ pc' = "counting"
             /\ reports' = Append(reports, [message |-> "Scanning project...",
                                            increment |-> <<0, 1>>])
             /\ files' = <<>>
             /\ scannedFiles' = 0
             /\ totalFiles' = 0
             /\ stack' = <<Frame("countFiles", <<>>, 0)>>
             /\ UNCHANGED outcome
        ELSE /\ pc' = "done"
             /\ outcome' = "dismissed"
             /\ UNCHANGED <<reports, files, scannedFiles, totalFiles, stack>>
    /\ UNCHANGED <<fs, hasWorkspace, format, token, items, notifications,
                   formatted, written, rejected,
                   warnings, cancelledAt>>
    /\ UNCHANGED <<quick, parked, current, atCancel>>

\* The user cancels the progress notification while the task runs.
Cancel ==
    /\ pc \in {"counting", "scanning", "structure", "write"}
    /\ ~token
    /\ token' = TRUE
    /\ cancelledAt' = pc
    /\ atCancel' = [files |-> Len(files), scannedFiles |-> scannedFiles,
                    totalFiles |-> totalFiles,
                    busy |-> IF stack # <<>> /\ Top.at \in {"stat", "read"}
                             THEN Top.at ELSE "no"]
    /\ UNCHANGED <<fs, hasWorkspace, pc, format, stack, files, scannedFiles,
                   totalFiles, items, reports, notifications, formatted, written,
                   outcome, rejected, warnings>>
    /\ UNCHANGED <<quick, parked, current>>

(***************************************************************************)
(* collectFiles: the counting pass.                                        *)
(***************************************************************************)

\* const items = await fsPromises.readdir(dir)
CountReaddir ==
    /\ pc = "counting" /\ stack # <<>> /\ Top.fn = "countFiles" /\ Top.at = "readdir"
    /\ LET d == EntryAt(fs, Top.dir)
       IN IF d.fault = "io"
          THEN Raise("readdir")
          ELSE /\ stack' = SetTop(stack, [Top EXCEPT !.list = Names(d), !.at = "loop"])
               /\ UNCHANGED <<pc, outcome, rejected, notifications, warnings>>
    /\ UNCHANGED <<fs, hasWorkspace, format, token, files, scannedFiles, totalFiles,
                   items, reports, formatted, written,
                   cancelledAt>>
    /\ UNCHANGED <<quick, parked, current, atCancel>>

\* The head of the loop body: the cancellation poll and the quick-ignore check.
CountLoop ==
    /\ pc = "counting" /\ stack # <<>> /\ Top.fn = "countFiles" /\ Top.at = "loop"
    /\ stack' =
         IF Top.i > Len(Top.list) THEN Pop(stack)
         ELSE IF token THEN Pop(stack)
         ELSE IF isQuickIgnored(ItemOf(Top)) THEN SetTop(stack, NextItem(Top))
         ELSE SetTop(stack, [Top EXCEPT !.at = "stat"])
    /\ UNCHANGED <<fs, hasWorkspace, pc, format, token, files, scannedFiles,
                   totalFiles, items, reports, notifications, formatted, written,
                   outcome, rejected,
                   warnings, cancelledAt>>
    /\ UNCHANGED <<quick, parked, current, atCancel>>

\* const stat = await fsPromises.stat(fullPath), then the recursion or totalFiles++.
CountStat ==
    /\ pc = "counting" /\ stack # <<>> /\ Top.fn = "countFiles" /\ Top.at = "stat"
    /\ LET e == ItemEntry(Top)
       IN IF e.fault = "stat"
          THEN Raise("stat") /\ UNCHANGED totalFiles
          ELSE /\ IF e.isDir
                  THEN /\ stack' = Append(SetTop(stack, NextItem(Top)),
                                          Frame("countFiles", ItemPath(Top), 0))
                       /\ UNCHANGED totalFiles
                  ELSE /\ totalFiles' = totalFiles + 1
                       /\ stack' = SetTop(stack, NextItem(Top))
               /\ UNCHANGED <<pc, outcome, rejected, notifications, warnings>>
    /\ UNCHANGED <<fs, hasWorkspace, format, token, files, scannedFiles, items,
                   reports, formatted, written,
                   cancelledAt>>
    /\ UNCHANGED <<quick, parked, current, atCancel>>

\* await countFiles(rootPath) has returned: traverse(rootPath) is called.
CountReturn ==
    /\ pc = "counting" /\ stack = <<>>
    /\ pc' = "scanning"
    /\ stack' = <<Frame("traverse", <<>>, 0)>>
    /\ UNCHANGED <<fs, hasWorkspace, format, token, files, scannedFiles, totalFiles,
                   items, reports, notifications, formatted, written, outcome, rejected,
                   warnings, cancelledAt>>
    /\ UNCHANGED <<quick, parked, current, atCancel>>

(***************************************************************************)
(* collectFiles: the scanning pass.                                        *)
(***************************************************************************)

\* The FileData pushed for the entry e at path p.
FileRecord(p, e) ==
    [path |-> relativePathOf(p),
     content |-> e.content,
     language |-> languageCache[relativePathOf(p)],
     size |-> e.size,
     lastModified |-> e.mtime]

\* A size check that also rejects a file of exactly the limit.
isTooLargeAtLimit(size) == size >= maxFileSizeBytes

\* A size check that lets a file one byte over the limit through.
isTooLargeOffByOne(size) == size > maxFileSizeBytes + 1

\* if (stat.size > this.maxFileSizeBytes) continue
isTooLarge(size) == size > maxFileSizeBytes

\* const items = await fsPromises.readdir(dir)
ScanReaddir ==
    /\ pc = "scanning" /\ stack # <<>> /\ Top.fn = "traverse" /\ Top.at = "readdir"
    /\ LET d == EntryAt(fs, Top.dir)
       IN IF d.fault = "io"
          THEN Raise("readdir")
          ELSE /\ stack' = SetTop(stack, [Top EXCEPT !.list = Names(d), !.at = "loop"])
               /\ UNCHANGED <<pc, outcome, rejected, notifications, warnings>>
    /\ UNCHANGED <<fs, hasWorkspace, format, token, files, scannedFiles, totalFiles,
                   items, reports, formatted, written,
                   cancelledAt>>
    /\ UNCHANGED <<quick, parked, current, atCancel>>

\* A traverse that never looks at the token.
traverseNeverPolls(tok) == FALSE

\* if (token.isCancellationRequested) return; at the head of the loop body.
traversePolls(tok) == tok

\* The head of the loop body: the cancellation poll, the quick-ignore check and the
\* pattern check.
ScanLoop ==
    /\ pc = "scanning" /\ stack # <<>> /\ Top.fn = "traverse" /\ Top.at = "loop"
    /\ stack' =
         IF Top.i > Len(Top.list) THEN Pop(stack)
         ELSE IF traversePolls(token) THEN Pop(stack)
         ELSE IF isQuickIgnored(ItemOf(Top)) THEN SetTop(stack, NextItem(Top))
         ELSE IF isPatternIgnored(relativePathOf(ItemPath(Top)))
              THEN SetTop(stack, NextItem(Top))
         ELSE SetTop(stack, [Top EXCEPT !.at = "stat"])
    /\ UNCHANGED <<fs, hasWorkspace, pc, format, token, files, scannedFiles,
                   totalFiles, items, reports, notifications, formatted, written,
                   outcome, rejected,
                   warnings, cancelledAt>>
    /\ UNCHANGED <<quick, parked, current, atCancel>>

\* A report of the fraction 1 / totalFiles.
scanIncrementFraction(total) == <<1, total>>

\* increment: (100 / totalFiles), kept as the pair of its numerator and its
\* denominator (the quotient is Infinity when the denominator is 0).
scanIncrement(total) == <<100, total>>

\* const stat = await fsPromises.stat(fullPath); scannedFiles++; progress.report;
\* then the recursion, or the size check and the binary check.
ScanStat ==
    /\ pc = "scanning" /\ stack # <<>> /\ Top.fn = "traverse" /\ Top.at = "stat"
    /\ LET e == ItemEntry(Top)
       IN IF e.fault = "stat"
          THEN Raise("stat") /\ UNCHANGED <<scannedFiles, reports>>
          ELSE IF e.fault = "report"
          THEN /\ scannedFiles' = scannedFiles + 1
               /\ Raise("report")
               /\ UNCHANGED reports
          ELSE /\ scannedFiles' = scannedFiles + 1
               /\ reports' = Append(reports,
                      [message |-> "Scanning", increment |-> scanIncrement(totalFiles)])
               /\ stack' =
                    IF e.isDir
                    THEN Append(SetTop(stack, NextItem(Top)),
                                Frame("traverse", ItemPath(Top), 0))
                    ELSE IF isTooLarge(e.size) THEN SetTop(stack, NextItem(Top))
                    ELSE IF ~binaryCache[relativePathOf(ItemPath(Top))]
                         THEN SetTop(stack, [Top EXCEPT !.at = "read"])
                    ELSE SetTop(stack, NextItem(Top))
               /\ warnings' =
                    IF ~e.isDir /\ isTooLarge(e.size)
                    THEN Append(warnings, [text |-> "Skipping large file",
                                           path |-> ItemPath(Top), cause |-> "size"])
                    ELSE warnings
               /\ UNCHANGED <<pc, outcome, rejected, notifications>>
    /\ UNCHANGED <<fs, hasWorkspace, format, token, files, totalFiles, items,
                   formatted, written, cancelledAt>>
    /\ UNCHANGED <<quick, parked, current, atCancel>>

\* The inner try { ... } catch (error) { console.warn(...) } around readFile and
\* files.push.
readFileCatches == TRUE

\* try { content = await fsPromises.readFile(fullPath); files.push({...}) }
\* catch (error) { console.warn(`Failed to read file: ...`) }
ScanRead ==
    /\ pc = "scanning" /\ stack # <<>> /\ Top.fn = "traverse" /\ Top.at = "read"
    /\ LET e == ItemEntry(Top)
       IN IF e.fault = "io"
          THEN IF readFileCatches
               THEN /\ warnings' = Append(warnings, [text |-> "Failed to read file",
                                                     path |-> ItemPath(Top),
                                                     cause |-> "readFile"])
                    /\ stack' = SetTop(stack, NextItem(Top))
                    /\ UNCHANGED <<files, pc, outcome, rejected, notifications>>
               ELSE Raise("readFile") /\ UNCHANGED files
          ELSE /\ files' = Append(files, FileRecord(ItemPath(Top), e))
               /\ stack' = SetTop(stack, NextItem(Top))
               /\ UNCHANGED <<pc, outcome, rejected, notifications, warnings>>
    /\ UNCHANGED <<fs, hasWorkspace, format, token, scannedFiles, totalFiles,
                   items, reports, formatted, written, cancelledAt>>
    /\ UNCHANGED <<quick, parked, current, atCancel>>

(***************************************************************************)
(* formatOutput.  A Date is the pair of its day since the epoch and its    *)
(* millisecond within that day (the time value is day * 86400000 + ms).    *)
(***************************************************************************)

\* The character U+0060 (grave accent), which a TLA+ string cannot hold.
Backtick == "U+0060"

DigitChars == <<"0","1","2","3","4","5","6","7","8","9">>

\* The decimal digits of a natural number (Number.prototype.toString).
RECURSIVE NatToString(_)
NatToString(n) ==
    IF n < 10 THEN <<DigitChars[n + 1]>>
    ELSE NatToString(n \div 10) \o <<DigitChars[(n % 10) + 1]>>

\* n in decimal, padded with zeros on the left to at least width digits.
RECURSIVE PadZero(_, _)
PadZero(n, width) ==
    LET d == NatToString(n)
    IN IF Len(d) >= width THEN d
       ELSE [k \in 1..(width - Len(d)) |-> "0"] \o d

\* The civil date of a day since the epoch (proleptic Gregorian calendar).
CivilFromDays(day) ==
    LET z == day + 719468
        era == z \div 146097
        doe == z - era * 146097
        yoe == (doe - doe \div 1460 + doe \div 36524 - doe \div 146096) \div 365
        doy == doe - (365 * yoe + yoe \div 4 - yoe \div 100)
        mp == (5 * doy + 2) \div 153
        d == doy - (153 * mp + 2) \div 5 + 1
        m == IF mp < 10 THEN mp + 3 ELSE mp - 9
        y == yoe + era * 400 + (IF m <= 2 THEN 1 ELSE 0)
    IN [year |-> y, month |-> m, date |-> d]

\* Date.prototype.toISOString for a year of four digits: YYYY-MM-DDTHH:mm:ss.sssZ.
toISOString(date) ==
    LET c == CivilFromDays(date.day)
        h == date.ms \div 3600000
        mi == (date.ms \div 60000) % 60
        sec == (date.ms \div 1000) % 60
        milli == date.ms % 1000
    IN PadZero(c.year, 4) \o <<"-">> \o PadZero(c.month, 2) \o <<"-">> \o PadZero(c.date, 2)
       \o <<"T">> \o PadZero(h, 2) \o <<":">> \o PadZero(mi, 2) \o <<":">> \o PadZero(sec, 2)
       \o <<".">> \o PadZero(milli, 3) \o <<"Z">>

\* (size / 1024).toFixed(2): size / 1024 is exact in a double, and toFixed rounds
\* the nearest hundredth, a tie to the larger one.
sizeKBFixed2(size) ==
    LET n == (size * 200 + 1024) \div 2048
    IN NatToString(n \div 100) \o <<".">> \o PadZero(n % 100, 2)

\* The control characters U+0001 and U+0008, which a TLA+ string cannot hold.
ControlSOH == "U+0001"
ControlBS == "U+0008"

\* A JSON writer that copies every character as it is.
escapeNothing(c) == <<c>>

\* QuoteJSONString on one character (the characters the model's strings hold):
\* the quote, the backslash and the control characters below U+0020 are escaped.
EscapeJSONChar(c) ==
    CASE c = "\"" -> <<"\\", "\"">>
      [] c = "\\" -> <<"\\", "\\">>
      [] c = "\n" -> <<"\\", "n">>
      [] c = "\r" -> <<"\\", "r">>
      [] c = "\t" -> <<"\\", "t">>
      [] c = "\f" -> <<"\\", "f">>
      [] c = ControlBS -> <<"\\", "b">>
      [] c = ControlSOH -> <<"\\", "u", "0", "0", "0", "1">>
      [] OTHER -> <<c>>

RECURSIVE EscapeJSON(_)
EscapeJSON(s) ==
    IF Len(s) = 0 THEN <<>> ELSE EscapeJSONChar(Head(s)) \o EscapeJSON(Tail(s))

\* JSON.stringify of a string.
QuoteJSONString(s) == <<"\"">> \o EscapeJSON(s) \o <<"\"">>

\* JSON.stringify(value, null, 2) of one element of files.map(...), nested in
\* the files array (its members indented by six spaces).
StringifyFile(f) ==
    <<" "," "," "," ","{","\n">>
    \o <<" "," "," "," "," "," ","\"","p","a","t","h","\"",":"," ">> \o QuoteJSONString(f.path) \o <<",","\n">>
    \o <<" "," "," "," "," "," ","\"","c","o","n","t","e","n","t","\"",":"," ">> \o QuoteJSONString(f.content) \o <<",","\n">>
    \o <<" "," "," "," "," "," ","\"","l","a","n","g","u","a","g","e","\"",":"," ">> \o QuoteJSONString(f.language) \o <<",","\n">>
    \o <<" "," "," "," "," "," ","\"","s","i","z","e","\"",":"," ">> \o NatToString(f.size) \o <<",","\n">>
    \o <<" "," "," "," "," "," ","\"","l","a","s","t","M","o","d","i","f","i","e","d","\"",":"," ">> \o QuoteJSONString(toISOString(f.lastModified)) \o <<"\n">>
    \o <<" "," "," "," ","}">>

\* JSON.stringify of the files array: "[]" when empty.
StringifyFiles(fileSeq) ==
    IF Len(fileSeq) = 0 THEN <<"[","]">>
    ELSE <<"[","\n">>
         \o join([k \in 1..Len(fileSeq) |-> StringifyFile(fileSeq[k])], <<",","\n">>)
         \o <<"\n"," "," ","]">>

\* case 'JSON': JSON.stringify({exportDate: new Date().toISOString(), structure,
\* files: files.map(...)}, null, 2); now is the value of new Date().
formatJSON(fileSeq, structure, now) ==
    <<"{","\n">>
    \o <<" "," ","\"","e","x","p","o","r","t","D","a","t","e","\"",":"," ">> \o QuoteJSONString(toISOString(now)) \o <<",","\n">>
    \o <<" "," ","\"","s","t","r","u","c","t","u","r","e","\"",":"," ">> \o QuoteJSONString(structure) \o <<",","\n">>
    \o <<" "," ","\"","f","i","l","e","s","\"",":"," ">> \o StringifyFiles(fileSeq) \o <<"\n">>
    \o <<"}">>

\* '='.repeat(40)
separatorLength == 40

\* The Text sections written last file first.
RECURSIVE formatTextFilesReversed(_)
formatTextFilesReversed(fileSeq) ==
    IF Len(fileSeq) = 0 THEN <<>>
    ELSE formatTextFilesReversed(Tail(fileSeq))
         \o <<"=","=","="," ">> \o Head(fileSeq).path \o <<" ","=","=","=","\n","\n">>
         \o Head(fileSeq).content \o <<"\n","\n">>
         \o [k \in 1..separatorLength |-> "="] \o <<"\n","\n">>

\* case 'Text'
RECURSIVE formatTextFiles(_)
formatTextFiles(fileSeq) ==
    IF Len(fileSeq) = 0 THEN <<>>
    ELSE <<"=","=","="," ">> \o Head(fileSeq).path \o <<" ","=","=","=","\n","\n">>
         \o Head(fileSeq).content \o <<"\n","\n">>
         \o [k \in 1..separatorLength |-> "="] \o <<"\n","\n">>
         \o formatTextFiles(Tail(fileSeq))

formatText(fileSeq, structure) ==
    <<"P","R","O","J","E","C","T"," ","E","X","P","O","R","T","\n","\n">>
    \o <<"P","R","O","J","E","C","T"," ","S","T","R","U","C","T","U","R","E",":","\n","\n">> \o structure \o <<"\n","\n">>
    \o <<"F","I","L","E","S",":","\n","\n">>
    \o formatTextFiles(fileSeq)

\* case 'Markdown' and default
RECURSIVE formatMarkdownFiles(_)
formatMarkdownFiles(fileSeq) ==
    IF Len(fileSeq) = 0 THEN <<>>
    ELSE LET file == Head(fileSeq)
         IN <<"#","#","#"," ">> \o file.path \o <<"\n">>
            \o <<"L","a","s","t"," ","m","o","d","i","f","i","e","d",":"," ">> \o toISOString(file.lastModified) \o <<"\n">>
            \o <<"S","i","z","e",":"," ">> \o sizeKBFixed2(file.size) \o <<" ","K","B","\n","\n">>
            \o <<Backtick,Backtick,Backtick>> \o file.language \o <<"\n">>
            \o file.content \o <<"\n",Backtick,Backtick,Backtick,"\n","\n">>
            \o formatMarkdownFiles(Tail(fileSeq))

formatMarkdown(fileSeq, structure) ==
    <<"#"," ","P","r","o","j","e","c","t"," ","E","x","p","o","r","t","\n","\n">>
    \o <<"#","#"," ","P","r","o","j","e","c","t"," ","S","t","r","u","c","t","u","r","e","\n","\n",Backtick,Backtick,Backtick,"\n">> \o structure \o <<"\n",Backtick,Backtick,Backtick,"\n","\n">>
    \o <<"#","#"," ","F","i","l","e","s","\n","\n">>
    \o formatMarkdownFiles(fileSeq)

\* A formatOutput that stamps the time of the call on the Markdown document too.
formatOutputStamped(fileSeq, structure, fmt, now) ==
    CASE fmt = "JSON" -> formatJSON(fileSeq, structure, now)
      [] fmt = "Text" -> formatText(fileSeq, structure)
      [] OTHER -> formatMarkdown(fileSeq, structure)
                  \o <<"E","x","p","o","r","t","e","d",":"," ">> \o toISOString(now) \o <<"\n">>

\* formatOutput(files, structure, format), called when new Date() is now.
formatOutput(fileSeq, structure, fmt, now) ==
    CASE fmt = "JSON" -> formatJSON(fileSeq, structure, now)
      [] fmt = "Text" -> formatText(fileSeq, structure)
      [] OTHER -> formatMarkdown(fileSeq, structure)


(***************************************************************************)
(* getProjectStructure.                                                    *)
(***************************************************************************)

\* The primary collation weight of a character under String.prototype.localeCompare
\* (the root collation): punctuation, then digits, then letters, a letter and its
\* capital sharing a weight.
PunctuationOrder == <<"_", "-", ".", "/">>

PrimaryWeight(c) ==
    IF IndexOf(PunctuationOrder, c) > 0 THEN IndexOf(PunctuationOrder, c)
    ELSE IF IndexOf(DigitChars, c) > 0 THEN 10 + IndexOf(DigitChars, c)
    ELSE IF IndexOf(LowerCaseLetters, c) > 0 THEN 20 + IndexOf(LowerCaseLetters, c)
    ELSE IF IndexOf(UpperCaseLetters, c) > 0 THEN 20 + IndexOf(UpperCaseLetters, c)
    ELSE 0

\* The comparison of two sequences of numbers, element by element, a proper prefix
\* first: -1, 0 or 1.
RECURSIVE CompareSeq(_, _)
CompareSeq(a, b) ==
    IF Len(a) = 0 /\ Len(b) = 0 THEN 0
    ELSE IF Len(a) = 0 THEN -1
    ELSE IF Len(b) = 0 THEN 1
    ELSE IF Head(a) < Head(b) THEN -1
    ELSE IF Head(a) > Head(b) THEN 1
    ELSE CompareSeq(Tail(a), Tail(b))

\* The case weight of a character: a small letter before its capital.
CaseWeight(c) == IF IndexOf(UpperCaseLetters, c) > 0 THEN 1 ELSE 0

\* a.localeCompare(b): the primary weights decide; when they are all equal, the
\* first difference of case decides.
localeCompare(a, b) ==
    LET primary == CompareSeq([k \in 1..Len(a) |-> PrimaryWeight(a[k])],
                              [k \in 1..Len(b) |-> PrimaryWeight(b[k])])
    IN IF primary # 0 THEN primary
       ELSE CompareSeq([k \in 1..Len(a) |-> CaseWeight(a[k])],
                       [k \in 1..Len(b) |-> CaseWeight(b[k])])

\* The comparator of files.sort in the directory d: directories first, then
\* localeCompare.
sortCompare(d, a, b) ==
    LET aIsDir == Child(d, a).isDir
        bIsDir == Child(d, b).isDir
    IN IF aIsDir /\ ~bIsDir THEN -1
       ELSE IF ~aIsDir /\ bIsDir THEN 1
       ELSE localeCompare(a, b)

\* list with the name x inserted before the first name that sorts after it.
RECURSIVE InsertSorted(_, _, _)
InsertSorted(d, list, x) ==
    IF Len(list) = 0 THEN <<x>>
    ELSE IF sortCompare(d, x, Head(list)) < 0 THEN <<x>> \o list
    ELSE <<Head(list)>> \o InsertSorted(d, Tail(list), x)

\* The listing left as readdir returned it.
sortFilesForgotten(d, list) == list

\* files.sort(comparator) on the names of directory d (a stable sort).
RECURSIVE sortFiles(_, _)
sortFiles(d, list) ==
    IF Len(list) = 0 THEN <<>>
    ELSE InsertSorted(d, sortFiles(d, SubSeq(list, 1, Len(list) - 1)), list[Len(list)])

\* fs.statSync throws in the comparator: a sort of two names or more compares
\* every name with another, and stats it.
sortThrows(d) ==
    /\ Len(d.items) >= 2
    /\ \E k \in 1..Len(d.items) : d.items[k].fault = "stat"

\* The marks of a directory line and of a file line (each one character).
FolderMark == "U+1F4C1"
PageMark == "U+1F4C4"

\* One element of items: prefix + mark + ' ' + file, the prefix two spaces for each
\* level.  The record keeps the line's parts and the entry's path.
StructureItem(depth, isDir, p) ==
    [depth |-> depth, isDir |-> isDir, file |-> p[Len(p)], path |-> p]

StructureLine(item) ==
    [k \in 1..(2 * item.depth) |-> " "]
    \o <<IF item.isDir THEN FolderMark ELSE PageMark, " ">>
    \o item.file

\* items.join('\n')
structureText(itemSeq) ==
    join([k \in 1..Len(itemSeq) |-> StructureLine(itemSeq[k])], <<"\n">>)

\* A structure pass that lists every file it reaches.
structureListsAnyFile(fullPath) == TRUE

\* if (!this.isBinaryPath(fullPath)) items.push(prefix + mark + file)
structureListsFile(fullPath) == ~isBinaryPath(fullPath)

\* const files = await fsPromises.readdir(dir); files.sort(...)
StructReaddir ==
    /\ pc = "structure" /\ stack # <<>> /\ Top.fn = "structure" /\ Top.at = "readdir"
    /\ LET d == EntryAt(fs, Top.dir)
       IN IF d.fault = "io" THEN Raise("readdir")
          ELSE IF sortThrows(d) THEN Raise("statSync")
          ELSE /\ stack' = SetTop(stack, [Top EXCEPT !.list = sortFiles(d, Names(d)),
                                                     !.at = "loop"])
               /\ UNCHANGED <<pc, outcome, rejected, notifications, warnings>>
    /\ UNCHANGED <<fs, hasWorkspace, format, token, files, scannedFiles, totalFiles,
                   items, reports, formatted, written,
                   cancelledAt>>
    /\ UNCHANGED <<quick, parked, current, atCancel>>

\* The head of the loop body: the quick-ignore check and the pattern check.
StructLoop ==
    /\ pc = "structure" /\ stack # <<>> /\ Top.fn = "structure" /\ Top.at = "loop"
    /\ stack' =
         IF Top.i > Len(Top.list) THEN Pop(stack)
         ELSE IF isQuickIgnored(ItemOf(Top)) THEN SetTop(stack, NextItem(Top))
         ELSE IF isPatternIgnored(relativePathOf(ItemPath(Top)))
              THEN SetTop(stack, NextItem(Top))
         ELSE SetTop(stack, [Top EXCEPT !.at = "stat"])
    /\ UNCHANGED <<fs, hasWorkspace, pc, format, token, files, scannedFiles,
                   totalFiles, items, reports, notifications, formatted, written,
                   outcome, rejected,
                   warnings, cancelledAt>>
    /\ UNCHANGED <<quick, parked, current, atCancel>>

\* const stat = await fsPromises.stat(fullPath); a directory is listed and
\* traversed, a file is listed unless its path is binary.
StructStat ==
    /\ pc = "structure" /\ stack # <<>> /\ Top.fn = "structure" /\ Top.at = "stat"
    /\ LET e == ItemEntry(Top)
       IN IF e.fault = "stat"
          THEN Raise("stat") /\ UNCHANGED items
          ELSE /\ IF e.isDir
                  THEN /\ items' = Append(items, StructureItem(Top.depth, TRUE, ItemPath(Top)))
                       /\ stack' = Append(SetTop(stack, NextItem(Top)),
                                          Frame("structure", ItemPath(Top), Top.depth + 1))
                  ELSE /\ items' = IF structureListsFile(fullPathOf(ItemPath(Top)))
                                   THEN Append(items, StructureItem(Top.depth, FALSE, ItemPath(Top)))
                                   ELSE items
                       /\ stack' = SetTop(stack, NextItem(Top))
               /\ UNCHANGED <<pc, outcome, rejected, notifications, warnings>>
    /\ UNCHANGED <<fs, hasWorkspace, format, token, files, scannedFiles, totalFiles,
                   reports, formatted, written,
                   cancelledAt>>
    /\ UNCHANGED <<quick, parked, current, atCancel>>

(***************************************************************************)
(* exportProject, from the return of collectFiles.                         *)
(***************************************************************************)

\* The values new Date() takes in formatOutput.
Times == { [day |-> 19723, ms |-> 0], [day |-> 19723, ms |-> 1] }

\* An export that does not look at the token after collectFiles.
cancellationNeverSeen(tok) == FALSE

\* if (token.isCancellationRequested) after collectFiles.
isCancellationRequested(tok) == tok

\* A cancellation reported through the catch of exportProject.
cancelShownAsError(at) ==
    [kind |-> "error", text |-> "Export failed", cause |-> "cancelled", during |-> at]

\* vscode.window.showInformationMessage('Export cancelled')
cancelNotification(at) ==
    [kind |-> "info", text |-> "Export cancelled", cause |-> "none", during |-> at]

\* const files = await this.collectFiles(...) has returned: a cancelled token ends
\* the export with 'Export cancelled'; otherwise the second report is made and
\* getProjectStructure starts.
ScanReturn ==
    /\ pc = "scanning" /\ stack = <<>>
    /\ IF isCancellationRequested(token)
       THEN /\ notifications' = Append(notifications, cancelNotification(pc))
            /\ pc' = "done"
            /\ outcome' = "cancelled"
            /\ UNCHANGED <<reports, items, stack>>
       ELSE /\ reports' = Append(reports, [message |-> "Generating output...",
                                           increment |-> <<50, 1>>])
            /\ items' = <<>>
            /\ stack' = <<Frame("structure", <<>>, 0)>>
            /\ pc' = "structure"
            /\ UNCHANGED <<notifications, outcome>>
    /\ UNCHANGED <<fs, hasWorkspace, format, token, files, scannedFiles, totalFiles,
                   formatted, written, rejected,
                   warnings, cancelledAt>>
    /\ UNCHANGED <<quick, parked, current, atCancel>>

\* getProjectStructure has returned items.join('\n'): formatOutput is called and
\* the third report made.
StructReturn ==
    /\ pc = "structure" /\ stack = <<>>
    /\ \E now \in Times :
         formatted' = Append(formatted,
             [files |-> files, structure |-> structureText(items), format |-> format,
              now |-> now,
              output |-> formatOutput(files, structureText(items), format, now)])
    /\ reports' = Append(reports, [message |-> "Saving file...", increment |-> <<75, 1>>])
    /\ pc' = "write"
    /\ UNCHANGED <<fs, hasWorkspace, format, token, stack, files, scannedFiles,
                   totalFiles, items, notifications, written, outcome, rejected,
                   warnings, cancelledAt>>
    /\ UNCHANGED <<quick, parked, current, atCancel>>

\* await fsPromises.writeFile(outputPath.fsPath, output, 'utf-8'): it succeeds and
\* 'Export complete!' is shown, or it throws.
WriteFile ==
    /\ pc = "write"
    /\ \E ok \in BOOLEAN :
         IF ok
         THEN /\ written' = Append(written, formatted[Len(formatted)].output)
              /\ notifications' = Append(notifications,
                     [kind |-> "info", text |-> "Export complete", cause |-> "none",
                      during |-> pc])
              /\ pc' = "done"
              /\ outcome' = "completed"
              /\ UNCHANGED rejected
         ELSE /\ ExportFailed("writeFile")
              /\ UNCHANGED written
    /\ UNCHANGED <<fs, hasWorkspace, format, token, stack, files, scannedFiles,
                   totalFiles, items, reports, formatted,
                   warnings, cancelledAt>>
    /\ UNCHANGED <<quick, parked, current, atCancel>>

Next ==
    \/ ExportStart
    \/ PickFormat
    \/ SaveDialog
    \/ Cancel
    \/ CountReaddir
    \/ CountLoop
    \/ CountStat
    \/ CountReturn
    \/ ScanReaddir
    \/ ScanLoop
    \/ ScanStat
    \/ ScanRead
    \/ ScanReturn
    \/ StructReaddir
    \/ StructLoop
    \/ StructStat
    \/ StructReturn
    \/ WriteFile

Spec == Init /\ [][Next]_vars


(***************************************************************************)
(* Properties.                                                             *)
(***************************************************************************)

\* The four conditions of an accepted FileRecord.
AcceptedRecord(f) ==
    /\ f.size <= 1048576
    /\ ~\E ext \in binaryExtensions : endsWith(toLowerCase(f.path), ext)
    /\ ~ignoreCache[f.path]
    /\ basename(f.path) \notin quickIgnoreList

\* C1: every FileRecord in the collection of collectFiles has a size of at most
\* 1,048,576 bytes, a path that ends (case-insensitively) with no binary extension,
\* a root-relative path that matches no ignore pattern, and a basename that is not
\* in the quick-ignore set.
C1_RecordsPassAllFilters ==
    \A k \in 1..Len(files) : AcceptedRecord(files[k])

\* A finished scan that kept a file of exactly 1,048,576 bytes and rejected or
\* skipped another examined entry.
C1_Witness ==
    /\ pc = "structure"
    /\ \E k \in 1..Len(files) : files[k].size = 1048576
    /\ scannedFiles > Len(files)

\* C2: when the token is cancelled before collectFiles returns (during the
\* counting pass or the scanning pass), exportProject never calls formatOutput and
\* never writes a document, whatever was read before.
C2_CancelledScanWritesNothing ==
    cancelledAt \in {"counting", "scanning"} => formatted = <<>> /\ written = <<>>

\* An export cancelled during the scanning pass, after a file was read and
\* appended, that has ended.
C2_Witness ==
    /\ cancelledAt = "scanning"
    /\ Len(files) >= 1
    /\ pc = "done"


(***************************************************************************)
(* getProjectStructure run by itself on a tree.                            *)
(***************************************************************************)

\* getProjectStructure(rootPath) is called: const items = [], traverse(rootPath).
InitStructure ==
    /\ hasWorkspace = TRUE
    /\ fs \in SortTrees
    /\ pc = "structure"
    /\ format = "Markdown"
    /\ token = FALSE
    /\ stack = <<Frame("structure", <<>>, 0)>>
    /\ files = <<>>
    /\ scannedFiles = 0
    /\ totalFiles = 0
    /\ items = <<>>
    /\ reports = <<>>
    /\ notifications = <<>>
    /\ formatted = <<>>
    /\ written = <<>>
    /\ outcome = "none"
    /\ rejected = FALSE
    /\ warnings = <<>>
    /\ cancelledAt = "never"
    /\ quick = NoQuickExport
    /\ parked = NoOtherExport
    /\ current = 1
    /\ atCancel = NoCancellation

NextStructure ==
    \/ StructReaddir
    \/ StructLoop
    \/ StructStat

SpecStructure == InitStructure /\ [][NextStructure]_vars

\* The directory of a structure item.
ParentOf(item) == SubSeq(item.path, 1, Len(item.path) - 1)

\* The pairs of items of one directory, in the order they were emitted.
SiblingPairs ==
    { <<i, j>> \in (1..Len(items)) \X (1..Len(items)) :
        i < j /\ ParentOf(items[i]) = ParentOf(items[j]) }

\* No file of a directory is emitted before a directory of the same directory.
DirectoriesFirst ==
    \A pr \in SiblingPairs : items[pr[1]].isDir \/ ~items[pr[2]].isDir

\* The UTF-16 code units of the characters of the names, in increasing order.
CodeUnitOrder ==
    <<"-", ".", "/">> \o DigitChars \o UpperCaseLetters \o <<"_">> \o LowerCaseLetters

\* The comparison of two strings by code units (the < of JavaScript strings).
CompareCodeUnits(a, b) ==
    CompareSeq([k \in 1..Len(a) |-> IndexOf(CodeUnitOrder, a[k])],
               [k \in 1..Len(b) |-> IndexOf(CodeUnitOrder, b[k])])

\* C3 as stated: whatever the listing order, the entries of a directory are
\* emitted directories first and, within the directories and within the files, in
\* lexicographic (code unit) order of name.
C3_LexicographicOrder ==
    /\ DirectoriesFirst
    /\ \A pr \in SiblingPairs :
         items[pr[1]].isDir = items[pr[2]].isDir
            => CompareCodeUnits(items[pr[1]].file, items[pr[2]].file) < 0

\* C3, amended: whatever the listing order, the entries of a directory are emitted
\* directories first and, within the directories and within the files, in the
\* order of localeCompare: letters compare without regard to case first, and a
\* small letter comes before its capital.
C3_CollationOrder ==
    /\ DirectoriesFirst
    /\ \A pr \in SiblingPairs :
         items[pr[1]].isDir = items[pr[2]].isDir
            => localeCompare(items[pr[1]].file, items[pr[2]].file) <= 0

\* A finished structure of a directory listed out of order: two directories and a
\* file were emitted, and the listing had the file first.
C3_Witness ==
    /\ stack = <<>>
    /\ Len(fs.items) = 3
    /\ ~fs.items[1].isDir
    /\ Cardinality({k \in 1..Len(items) : Len(items[k].path) = 1 /\ items[k].isDir}) = 2
    /\ Cardinality({k \in 1..Len(items) : Len(items[k].path) = 1 /\ ~items[k].isDir}) = 1


(***************************************************************************)
(* The entries of the tree and what the filters say of them.               *)
(***************************************************************************)

\* The paths (sequences of names) of the entries under directory d at path prefix.
RECURSIVE PathsUnder(_, _)
PathsUnder(d, prefix) ==
    UNION { {Append(prefix, d.items[k].name)}
            \cup (IF d.items[k].isDir
                  THEN PathsUnder(d.items[k], Append(prefix, d.items[k].name))
                  ELSE {}) : k \in 1..Len(d.items) }

AllPaths == PathsUnder(fs, <<>>)

\* The paths of the ancestors of p under the root.
Ancestors(p) == { SubSeq(p, 1, n) : n \in 1..(Len(p) - 1) }

\* The entry at p is neither quick-ignored nor pattern-ignored.
NotIgnored(p) ==
    /\ p[Len(p)] \notin quickIgnoreList
    /\ ~ignoreCache[relativePathOf(p)]

\* The file at p passes every filter of the scanning pass and so do the
\* directories above it, and stat and the reads succeed on all of them.
AcceptableReadableFile(p) ==
    /\ ~EntryAt(fs, p).isDir
    /\ EntryAt(fs, p).fault = "none"
    /\ EntryAt(fs, p).size <= 1048576
    /\ ~\E ext \in binaryExtensions : endsWith(toLowerCase(relativePathOf(p)), ext)
    /\ NotIgnored(p)
    /\ \A q \in Ancestors(p) : NotIgnored(q) /\ EntryAt(fs, q).fault = "none"

RecordPaths == { files[k].path : k \in 1..Len(files) }

\* C4: a stat or read failure on one entry during the scanning pass skips only that
\* entry: once the scanning pass has returned without cancellation, every
\* acceptable readable file has a FileRecord, the later siblings of a failed entry
\* included.
C4_FailureSkipsOnlyThatEntry ==
    pc = "structure" /\ fs.fault = "none"
        => \A p \in AllPaths : AcceptableReadableFile(p) => relativePathOf(p) \in RecordPaths


\* C5: whatever readdir, stat or readFile failures occur in the counting pass and
\* in the scanning pass, collectFiles never raises: no exception reaches the catch
\* of exportProject from either pass, and the invocation has no outcome before
\* collectFiles has returned.
C5_CollectFilesNeverRaises ==
    /\ \A k \in 1..Len(notifications) :
         notifications[k].kind = "error"
            => notifications[k].during \notin {"counting", "scanning"}
    /\ pc \in {"counting", "scanning"} => outcome = "none" /\ ~rejected

\* collectFiles has returned a FileRecord after the counting pass and the
\* scanning pass each caught a failure.
C5_Witness ==
    /\ pc = "structure"
    /\ Len(files) >= 1
    /\ \E k \in 1..Len(warnings) : warnings[k].text = "Error counting files in"
    /\ \E k \in 1..Len(warnings) : warnings[k].text = "Error processing directory"

\* C6: with a workspace root, an unreadable file or directory met during the
\* counting, scanning or structure traversal never makes the export fail: the
\* only failure of an export that has a root is the failure of the document write.
C6_OnlyWriteFails ==
    \A k \in 1..Len(notifications) :
        notifications[k].kind = "error" => notifications[k].cause = "writeFile"

\* No I/O operation fails on any entry of the tree.
NoFaults ==
    /\ fs.fault = "none"
    /\ \A p \in AllPaths : EntryAt(fs, p).fault = "none"

\* The content-capture rule with the size threshold removed: the file at p is not
\* quick-ignored, not pattern-ignored, not binary, and every directory above it is
\* neither quick-ignored nor pattern-ignored.
StructureRule(p) ==
    /\ ~EntryAt(fs, p).isDir
    /\ NotIgnored(p)
    /\ ~\E ext \in binaryExtensions : endsWith(toLowerCase(relativePathOf(p)), ext)
    /\ \A q \in Ancestors(p) : NotIgnored(q)

\* The files the Structure lists, by path.
ListedFiles == { items[k].path : k \in {n \in 1..Len(items) : ~items[n].isDir} }

ListedRelativePaths == { relativePathOf(p) : p \in ListedFiles }

\* C7: on a tree without I/O failures, once both traversals have returned, the
\* files listed in the Structure are exactly those that pass the content-capture
\* rule without the size threshold; every FileRecord path is listed; and the listed
\* files without a FileRecord are exactly the files over 1,048,576 bytes.
C7_StructureIsCaptureWithoutSize ==
    pc = "write" /\ NoFaults
        => /\ ListedFiles = { p \in AllPaths : StructureRule(p) }
           /\ RecordPaths \subseteq ListedRelativePaths
           /\ ListedRelativePaths \ RecordPaths
                = { relativePathOf(p) :
                      p \in { q \in AllPaths : StructureRule(q)
                                               /\ EntryAt(fs, q).size > 1048576 } }

\* Both traversals have returned on a tree without failures that holds a captured
\* file, an oversized file that is listed only, and a file that is not listed.
C7_Witness ==
    /\ pc = "write"
    /\ NoFaults
    /\ RecordPaths # {}
    /\ ListedRelativePaths \ RecordPaths # {}
    /\ \E p \in AllPaths : ~EntryAt(fs, p).isDir /\ p \notin ListedFiles

\* A readable file that is neither ignored nor binary, under directories that are
\* not ignored.
PlainFile(p) ==
    /\ StructureRule(p)
    /\ EntryAt(fs, p).fault = "none"

\* C8: in an export that completes, a readable, non-ignored, non-binary file of
\* exactly 1,048,576 bytes has a FileRecord, and such a file of 1,048,577 bytes has
\* no FileRecord and is listed in the Structure.
C8_SizeThreshold ==
    outcome = "completed"
        => \A p \in AllPaths :
             PlainFile(p)
                => /\ EntryAt(fs, p).size = 1048576 => relativePathOf(p) \in RecordPaths
                   /\ EntryAt(fs, p).size = 1048577
                        => /\ relativePathOf(p) \notin RecordPaths
                           /\ p \in ListedFiles

\* A completed export of a tree that holds a plain file of 1,048,576 bytes and one
\* of 1,048,577 bytes.
C8_Witness ==
    /\ outcome = "completed"
    /\ \E p \in AllPaths : PlainFile(p) /\ EntryAt(fs, p).size = 1048576
    /\ \E p \in AllPaths : PlainFile(p) /\ EntryAt(fs, p).size = 1048577



(***************************************************************************)
(* formatOutput on its own: the calls exportProject makes of it, on        *)
(* FileRecord sequences and Structure items of every shape.                *)
(***************************************************************************)

MaxFormatFiles == 2
MaxCalls == 2

\* FileRecords as files.push builds them: contents with the characters JSON has
\* to escape, sizes around the limit, modification times at the epoch, before
\* it, on the last millisecond of a leap day and in the middle of a day.
FormatRecords ==
    { [path |-> <<"a",".","t","s">>, content |-> <<"a">>, language |-> getLanguageId(<<"a",".","t","s">>),
       size |-> 1, lastModified |-> entryMtime],
      [path |-> <<"s","r","c","/","b",".","m","d">>, content |-> <<"\"", "\\", "\n", ",">>,
       language |-> getLanguageId(<<"s","r","c","/","b",".","m","d">>),
       size |-> 1048576, lastModified |-> [day |-> 0, ms |-> 0]],
      [path |-> <<"c">>, content |-> <<>>, language |-> getLanguageId(<<"c">>),
       size |-> 0, lastModified |-> [day |-> 19782, ms |-> 86399999]],
      [path |-> <<"d",".","j","s","o","n">>, content |-> <<"{", "\t", ControlSOH, "\r", "\f", ControlBS, "}">>,
       language |-> getLanguageId(<<"d",".","j","s","o","n">>),
       size |-> 7, lastModified |-> [day |-> -1, ms |-> 86399999]] }

\* The FileRecord sequences formatOutput is given, in every order.
FormatFileSeqs == UNION { [1..k -> FormatRecords] : k \in 0..MaxFormatFiles }

\* The items of a Structure: none, or a directory with a file in it.
FormatItems ==
    { <<>>,
      <<StructureItem(0, TRUE, <<<<"s","r","c">>>>),
        StructureItem(1, FALSE, <<<<"s","r","c">>, <<"b",".","m","d">>>>)>> }

\* The state at the call of formatOutput: files and items hold what the two
\* traversals returned, format what the user picked.
InitFormat ==
    /\ hasWorkspace = TRUE
    /\ fs = DirEntry(<<>>, <<>>, "none")
    /\ pc = "structure"
    /\ format \in Formats
    /\ token = FALSE
    /\ stack = <<>>
    /\ files \in FormatFileSeqs
    /\ scannedFiles = 0
    /\ totalFiles = 0
    /\ items \in FormatItems
    /\ reports = <<>>
    /\ notifications = <<>>
    /\ formatted = <<>>
    /\ written = <<>>
    /\ outcome = "none"
    /\ rejected = FALSE
    /\ warnings = <<>>
    /\ cancelledAt = "never"
    /\ quick = NoQuickExport
    /\ parked = NoOtherExport
    /\ current = 1
    /\ atCancel = NoCancellation

\* const output = this.formatOutput(files, structure, format), made when
\* new Date() is now; the same arguments may be formatted again at another time.
FormatCall ==
    /\ pc = "structure" /\ stack = <<>>
    /\ Len(formatted) < MaxCalls
    /\ \E now \in Times :
         formatted' = Append(formatted,
             [files |-> files, structure |-> structureText(items), format |-> format,
              now |-> now,
              output |-> formatOutput(files, structureText(items), format, now)])
    /\ UNCHANGED <<fs, hasWorkspace, pc, format, token, stack, files, scannedFiles,
                   totalFiles, items, reports, notifications, written, outcome,
                   rejected, warnings, cancelledAt>>
    /\ UNCHANGED <<quick, parked, current, atCancel>>

NextFormat == FormatCall

SpecFormat == InitFormat /\ [][NextFormat]_vars


(***************************************************************************)
(* JSON.parse and Date.parse, as a reader of the JSON document applies     *)
(* them.                                                                   *)
(***************************************************************************)

\* A parse that failed (JSON.parse throws SyntaxError).
ParseFail == [ok |-> FALSE, val |-> [type |-> "none", v |-> <<>>], next |-> 0]

ParseOk(type, v, next) == [ok |-> TRUE, val |-> [type |-> type, v |-> v], next |-> next]

\* The character of s at i, or "EOF" past the end.
CharAt(s, i) == IF i >= 1 /\ i <= Len(s) THEN s[i] ELSE "EOF"

\* JSON whitespace is skipped between tokens.
RECURSIVE SkipWhitespace(_, _)
SkipWhitespace(s, i) ==
    IF CharAt(s, i) \in {" ", "\n", "\t", "\r"} THEN SkipWhitespace(s, i + 1) ELSE i

HexDigits == <<"0","1","2","3","4","5","6","7","8","9","a","b","c","d","e","f">>

IsHexDigit(c) == IndexOf(HexDigits, LowerChar(c)) # 0

HexValue(c) == IndexOf(HexDigits, LowerChar(c)) - 1

\* String.fromCharCode on the code units the model's strings hold; any other
\* code unit is the one character "U+XXXX".
FromCharCode(code) ==
    CASE code = 1 -> ControlSOH
      [] code = 8 -> ControlBS
      [] code = 9 -> "\t"
      [] code = 10 -> "\n"
      [] code = 12 -> "\f"
      [] code = 13 -> "\r"
      [] code = 34 -> "\""
      [] code = 92 -> "\\"
      [] OTHER -> "U+XXXX"

\* The character an escape \c stands for, "EOF" when \c is no escape of JSON.
Unescape(c) ==
    CASE c = "\"" -> "\""
      [] c = "\\" -> "\\"
      [] c = "/" -> "/"
      [] c = "b" -> ControlBS
      [] c = "f" -> "\f"
      [] c = "n" -> "\n"
      [] c = "r" -> "\r"
      [] c = "t" -> "\t"
      [] OTHER -> "EOF"

\* A control character below U+0020 may not stand unescaped in a JSON string.
IsControl(c) == c \in {"\n", "\r", "\t", "\f", ControlSOH, ControlBS}

\* The characters of a JSON string from i, the opening quote already read, up to
\* the closing quote.
RECURSIVE ParseStringChars(_, _)
ParseStringChars(s, i) ==
    LET c == CharAt(s, i)
    IN IF c = "EOF" \/ IsControl(c) THEN ParseFail
       ELSE IF c = "\"" THEN ParseOk("string", <<>>, i + 1)
       ELSE IF c = "\\"
       THEN LET e == CharAt(s, i + 1)
            IN IF e = "u"
               THEN IF \A k \in 2..5 : IsHexDigit(CharAt(s, i + k))
                    THEN LET code == 4096 * HexValue(s[i + 2]) + 256 * HexValue(s[i + 3])
                                     + 16 * HexValue(s[i + 4]) + HexValue(s[i + 5])
                             r == ParseStringChars(s, i + 6)
                         IN IF r.ok
                            THEN ParseOk("string", <<FromCharCode(code)>> \o r.val.v, r.next)
                            ELSE ParseFail
                    ELSE ParseFail
               ELSE IF Unescape(e) = "EOF" THEN ParseFail
               ELSE LET r == ParseStringChars(s, i + 2)
                    IN IF r.ok
                       THEN ParseOk("string", <<Unescape(e)>> \o r.val.v, r.next)
                       ELSE ParseFail
       ELSE LET r == ParseStringChars(s, i + 1)
            IN IF r.ok THEN ParseOk("string", <<c>> \o r.val.v, r.next) ELSE ParseFail

IsDigit(c) == IndexOf(DigitChars, c) # 0

\* The digits of a JSON number from i, acc the value read so far.
RECURSIVE ParseDigits(_, _, _)
ParseDigits(s, i, acc) ==
    IF IsDigit(CharAt(s, i))
    THEN ParseDigits(s, i + 1, 10 * acc + IndexOf(DigitChars, s[i]) - 1)
    ELSE ParseOk("number", acc, i)

\* A JSON number without fraction or exponent (the sizes of the document).
ParseNumber(s, i) ==
    LET neg == CharAt(s, i) = "-"
        j == IF neg THEN i + 1 ELSE i
        r == ParseDigits(s, j, 0)
    IN IF ~IsDigit(CharAt(s, j)) THEN ParseFail
       ELSE IF CharAt(s, j) = "0" /\ IsDigit(CharAt(s, j + 1)) THEN ParseFail
       ELSE IF CharAt(s, r.next) \in {".", "e", "E"} THEN ParseFail
       ELSE ParseOk("number", IF neg THEN 0 - r.val.v ELSE r.val.v, r.next)

\* Whether the characters of word stand in s from i.
StartsWithAt(s, i, word) == \A k \in 1..Len(word) : CharAt(s, i + k - 1) = word[k]

RECURSIVE ParseValue(_, _)
RECURSIVE ParseMembers(_, _, _)
RECURSIVE ParseElements(_, _, _)

\* A JSON value from i, whitespace before it skipped.
ParseValue(s, i) ==
    LET j == SkipWhitespace(s, i)
        c == CharAt(s, j)
    IN CASE c = "\"" -> ParseStringChars(s, j + 1)
         [] c = "{" -> LET k == SkipWhitespace(s, j + 1)
                       IN IF CharAt(s, k) = "}" THEN ParseOk("object", <<>>, k + 1)
                          ELSE ParseMembers(s, k, <<>>)
         [] c = "[" -> LET k == SkipWhitespace(s, j + 1)
                       IN IF CharAt(s, k) = "]" THEN ParseOk("array", <<>>, k + 1)
                          ELSE ParseElements(s, k, <<>>)
         [] c = "-" \/ IsDigit(c) -> ParseNumber(s, j)
         [] StartsWithAt(s, j, <<"t","r","u","e">>) -> ParseOk("boolean", TRUE, j + 4)
         [] StartsWithAt(s, j, <<"f","a","l","s","e">>) -> ParseOk("boolean", FALSE, j + 5)
         [] StartsWithAt(s, j, <<"n","u","l","l">>) -> ParseOk("null", <<>>, j + 4)
         [] OTHER -> ParseFail

\* The members of an object from i, acc the members read so far.
ParseMembers(s, i, acc) ==
    IF CharAt(s, i) # "\"" THEN ParseFail
    ELSE LET key == ParseStringChars(s, i + 1)
         IN IF ~key.ok THEN ParseFail
            ELSE LET j == SkipWhitespace(s, key.next)
                 IN IF CharAt(s, j) # ":" THEN ParseFail
                    ELSE LET value == ParseValue(s, j + 1)
                         IN IF ~value.ok THEN ParseFail
                            ELSE LET k == SkipWhitespace(s, value.next)
                                     more == Append(acc, [key |-> key.val.v,
                                                          value |-> value.val])
                                 IN IF CharAt(s, k) = ","
                                    THEN ParseMembers(s, SkipWhitespace(s, k + 1), more)
                                    ELSE IF CharAt(s, k) = "}"
                                    THEN ParseOk("object", more, k + 1)
                                    ELSE ParseFail

\* The elements of an array from i, acc the elements read so far.
ParseElements(s, i, acc) ==
    LET value == ParseValue(s, i)
    IN IF ~value.ok THEN ParseFail
       ELSE LET k == SkipWhitespace(s, value.next)
                more == Append(acc, value.val)
            IN IF CharAt(s, k) = "," THEN ParseElements(s, k + 1, more)
               ELSE IF CharAt(s, k) = "]" THEN ParseOk("array", more, k + 1)
               ELSE ParseFail

\* JSON.parse(text): one value and nothing but whitespace after it.
JSONParse(text) ==
    LET r == ParseValue(text, 1)
    IN IF r.ok /\ SkipWhitespace(text, r.next) = Len(text) + 1 THEN r ELSE ParseFail

\* object[key]: the last member of that name, or undefined.
Member(object, key) ==
    LET found == { n \in 1..Len(object.v) : object.v[n].key = key }
    IN IF object.type # "object" \/ found = {} THEN [type |-> "undefined", v |-> <<>>]
       ELSE object.v[CHOOSE n \in found : \A m \in found : m <= n].value

\* The number the decimal digits s[a..b] denote.
RECURSIVE DigitsValue(_, _, _)
DigitsValue(s, a, b) ==
    IF b < a THEN 0
    ELSE 10 * DigitsValue(s, a, b - 1) + IndexOf(DigitChars, s[b]) - 1

\* The day since the epoch of a civil date (proleptic Gregorian calendar).
DaysFromCivil(year, month, date) ==
    LET y == IF month <= 2 THEN year - 1 ELSE year
        era == y \div 400
        yoe == y - era * 400
        mp == IF month > 2 THEN month - 3 ELSE month + 9
        doy == (153 * mp + 2) \div 5 + date - 1
        doe == yoe * 365 + yoe \div 4 - yoe \div 100 + doy
    IN era * 146097 + doe - 719468

\* Date.parse of YYYY-MM-DDTHH:mm:ss.sssZ: the instant as a day and the
\* milliseconds in it; ms = -1 stands for NaN.
DateParse(s) ==
    IF /\ Len(s) = 24
       /\ \A k \in {1,2,3,4,6,7,9,10,12,13,15,16,18,19,21,22,23} : IsDigit(s[k])
       /\ s[5] = "-" /\ s[8] = "-" /\ s[11] = "T" /\ s[14] = ":" /\ s[17] = ":"
       /\ s[20] = "." /\ s[24] = "Z"
    THEN [day |-> DaysFromCivil(DigitsValue(s, 1, 4), DigitsValue(s, 6, 7),
                                DigitsValue(s, 9, 10)),
          ms |-> 3600000 * DigitsValue(s, 12, 13) + 60000 * DigitsValue(s, 15, 16)
                 + 1000 * DigitsValue(s, 18, 19) + DigitsValue(s, 21, 23)]
    ELSE [day |-> 0, ms |-> -1]


\* Two calls of formatOutput with the same arguments.
SameArguments(a, b) ==
    /\ a.files = b.files
    /\ a.structure = b.structure
    /\ a.format = b.format

\* C9 as stated: for each of the three formats, two calls of formatOutput with
\* the same FileRecord sequence, the same structure text and the same format
\* return byte-identical documents, whatever the time of each call.
C9_ByteIdenticalWhateverTheTime ==
    \A j, k \in 1..Len(formatted) :
        SameArguments(formatted[j], formatted[k])
            => formatted[j].output = formatted[k].output

\* C9: two calls of formatOutput with the same arguments return byte-identical
\* Markdown and Text documents whatever the time of each call; the JSON documents
\* hold the time of the call as exportDate, are byte-identical when the two calls
\* are made in the same millisecond, and otherwise differ, in the characters of
\* the exportDate value only.
C9_IdenticalButExportDate ==
    \A j, k \in 1..Len(formatted) :
        SameArguments(formatted[j], formatted[k])
            => LET a == formatted[j].output
                   b == formatted[k].output
                   first == Len(<<"{","\n"," "," ","\"","e","x","p","o","r","t","D","a","t","e","\"",":"," ","\"">>) + 1
                   last == first + 23
               IN IF formatted[j].format = "JSON"
                  THEN /\ Len(a) = Len(b)
                       /\ SubSeq(a, first, last) = toISOString(formatted[j].now)
                       /\ \A n \in 1..Len(a) : a[n] # b[n] => n \in first..last
                       /\ (a = b) <=> (formatted[j].now = formatted[k].now)
                  ELSE a = b

\* The same records were formatted as JSON at two different times.
C9_Witness ==
    /\ Len(formatted) = 2
    /\ formatted[1].format = "JSON"
    /\ SameArguments(formatted[1], formatted[2])
    /\ formatted[1].now # formatted[2].now
    /\ Len(formatted[1].files) >= 1

\* The entry of the parsed file array that stands for FileRecord f: the same
\* path, content, language and size, and a lastModified that Date.parse takes to
\* the instant of f.lastModified.
ParsedAs(entry, f) ==
    /\ entry.type = "object"
    /\ Member(entry, <<"p","a","t","h">>).type = "string"
    /\ Member(entry, <<"p","a","t","h">>).v = f.path
    /\ Member(entry, <<"c","o","n","t","e","n","t">>).type = "string"
    /\ Member(entry, <<"c","o","n","t","e","n","t">>).v = f.content
    /\ Member(entry, <<"l","a","n","g","u","a","g","e">>).type = "string"
    /\ Member(entry, <<"l","a","n","g","u","a","g","e">>).v = f.language
    /\ Member(entry, <<"s","i","z","e">>).type = "number"
    /\ Member(entry, <<"s","i","z","e">>).v = f.size
    /\ Member(entry, <<"l","a","s","t","M","o","d","i","f","i","e","d">>).type = "string"
    /\ DateParse(Member(entry, <<"l","a","s","t","M","o","d","i","f","i","e","d">>).v) = f.lastModified

\* C10: parsing the JSON document formatOutput produced for a FileRecord sequence
\* yields a file array of the same length and order whose entries have the path,
\* content, size and language of the records, and whose lastModified denotes the
\* same instant.
C10_JSONRoundTrip ==
    \A k \in 1..Len(formatted) :
        formatted[k].format = "JSON"
            => LET doc == JSONParse(formatted[k].output)
                   parsed == Member(doc.val, <<"f","i","l","e","s">>)
                   given == formatted[k].files
               IN /\ doc.ok
                  /\ parsed.type = "array"
                  /\ Len(parsed.v) = Len(given)
                  /\ \A n \in 1..Len(given) : ParsedAs(parsed.v[n], given[n])

\* A JSON document was produced for two different records, one of them with a
\* quote, a backslash and a line feed in its content.
C10_Witness ==
    \E k \in 1..Len(formatted) :
        /\ formatted[k].format = "JSON"
        /\ Len(formatted[k].files) = 2
        /\ formatted[k].files[1] # formatted[k].files[2]
        /\ \E n \in 1..2 : formatted[k].files[n].content = <<"\"", "\\", "\n", ",">>



(***************************************************************************)
(* collectFiles and getProjectStructure run on the trees of the pattern    *)
(* check.                                                                  *)
(***************************************************************************)

\* withProgress has called collectFiles(rootPath, progress, token).
InitPattern ==
    /\ hasWorkspace = TRUE
    /\ fs \in PatternTrees
    /\ pc = "counting"
    /\ format = "Markdown"
    /\ token = FALSE
    /\ stack = <<Frame("countFiles", <<>>, 0)>>
    /\ files = <<>>
    /\ scannedFiles = 0
    /\ totalFiles = 0
    /\ items = <<>>
    /\ reports = <<[message |-> "Scanning project...", increment |-> <<0, 1>>]>>
    /\ notifications = <<>>
    /\ formatted = <<>>
    /\ written = <<>>
    /\ outcome = "none"
    /\ rejected = FALSE
    /\ warnings = <<>>
    /\ cancelledAt = "never"
    /\ quick = NoQuickExport
    /\ parked = NoOtherExport
    /\ current = 1
    /\ atCancel = NoCancellation

NextPattern ==
    \/ CountReaddir
    \/ CountLoop
    \/ CountStat
    \/ CountReturn
    \/ ScanReaddir
    \/ ScanLoop
    \/ ScanStat
    \/ ScanRead
    \/ ScanReturn
    \/ StructReaddir
    \/ StructLoop
    \/ StructStat

SpecPattern == InitPattern /\ [][NextPattern]_vars

\* The reference matcher: the atoms of a pattern, each "**" an atom that matches
\* any sequence of characters, every other character an atom that matches itself.
RECURSIVE ReferenceAtoms(_)
ReferenceAtoms(pattern) ==
    IF Len(pattern) = 0 THEN <<>>
    ELSE IF Len(pattern) >= 2 /\ pattern[1] = "*" /\ pattern[2] = "*"
         THEN <<[ch |-> "**", anySequence |-> TRUE]>>
              \o ReferenceAtoms(SubSeq(pattern, 3, Len(pattern)))
         ELSE <<[ch |-> pattern[1], anySequence |-> FALSE]>>
              \o ReferenceAtoms(Tail(pattern))

\* Whether atoms[k..] match a prefix of s[j..].
RECURSIVE ReferenceMatchHere(_, _, _, _)
ReferenceMatchHere(atoms, k, s, j) ==
    IF k > Len(atoms) THEN TRUE
    ELSE IF atoms[k].anySequence
         THEN \E n \in j..(Len(s) + 1) : ReferenceMatchHere(atoms, k + 1, s, n)
         ELSE /\ j <= Len(s)
              /\ s[j] = atoms[k].ch
              /\ ReferenceMatchHere(atoms, k + 1, s, j + 1)

\* The reference matcher on a path: like regex.test, a match may start and end
\* anywhere in the path.
ReferenceMatch(pattern, s) ==
    \E start \in 1..(Len(s) + 1) : ReferenceMatchHere(ReferenceAtoms(pattern), 1, s, start)

\* A pass is at the head of its loop body with an entry that the quick-ignore
\* check lets through: the pattern check is applied to the entry's relative path.
AtPatternCheck ==
    /\ stack # <<>>
    /\ Top.fn \in {"traverse", "structure"}
    /\ Top.at = "loop"
    /\ Top.i <= Len(Top.list)
    /\ ~isQuickIgnored(ItemOf(Top))

\* C11: whenever the scanning pass or the structure pass applies the pattern check
\* to a relative path, each pattern of the configured list gives the result of the
\* reference matcher, in which "**" matches any sequence of characters and every
\* other character of the pattern matches only itself.
C11_PatternCheckIsReference ==
    AtPatternCheck
        => \A n \in 1..Len(defaultIgnore) :
             RegExpTest(replaceDoubleStar(defaultIgnore[n]), relativePathOf(ItemPath(Top)))
                = ReferenceMatch(defaultIgnore[n], relativePathOf(ItemPath(Top)))


\* C12: once the token is cancelled during the counting or the scanning pass, no
\* error notification and no 'Export complete' notification is ever emitted and
\* exportProject does not reject; when the export has ended, its outcome is
\* Cancelled and the one notification emitted is the informational 'Export
\* cancelled'.
C12_CancelledIsNotFailed ==
    cancelledAt \in {"counting", "scanning"}
        => /\ ~rejected
           /\ outcome \in {"none", "cancelled"}
           /\ \A k \in 1..Len(notifications) :
                /\ notifications[k].kind = "info"
                /\ notifications[k].text = "Export cancelled"
           /\ pc = "done"
                => /\ outcome = "cancelled"
                   /\ Len(notifications) = 1

\* An export cancelled in the middle of the scanning pass, in a nested directory,
\* after a failure was caught, has ended.
C12_Witness ==
    /\ cancelledAt = "scanning"
    /\ pc = "done"
    /\ outcome = "cancelled"
    /\ Len(warnings) >= 1
    /\ scannedFiles >= 1



(***************************************************************************)
(* collectFiles with a progress sink that may throw.                       *)
(***************************************************************************)

\* withProgress has called collectFiles(rootPath, progress, token).
InitSink ==
    /\ hasWorkspace = TRUE
    /\ fs \in SinkTrees
    /\ pc = "counting"
    /\ format = "Markdown"
    /\ token = FALSE
    /\ stack = <<Frame("countFiles", <<>>, 0)>>
    /\ files = <<>>
    /\ scannedFiles = 0
    /\ totalFiles = 0
    /\ items = <<>>
    /\ reports = <<[message |-> "Scanning project...", increment |-> <<0, 1>>]>>
    /\ notifications = <<>>
    /\ formatted = <<>>
    /\ written = <<>>
    /\ outcome = "none"
    /\ rejected = FALSE
    /\ warnings = <<>>
    /\ cancelledAt = "never"
    /\ quick = NoQuickExport
    /\ parked = NoOtherExport
    /\ current = 1
    /\ atCancel = NoCancellation

NextSink ==
    \/ CountReaddir
    \/ CountLoop
    \/ CountStat
    \/ CountReturn
    \/ ScanReaddir
    \/ ScanLoop
    \/ ScanStat
    \/ ScanRead
    \/ ScanReturn

SpecSink == InitSink /\ [][NextSink]_vars

\* The paths collectFiles returns on a tree without I/O failures when the sink
\* does not throw: the files that pass every filter, under directories that pass
\* the ignore checks.
PathsWithQuietSink ==
    { relativePathOf(p) :
        p \in { q \in AllPaths : StructureRule(q) /\ EntryAt(fs, q).size <= 1048576 } }

\* C13: when the progress sink throws on a report of the scanning pass, the
\* traversal neither fails nor loses entries: once collectFiles has returned, its
\* FileRecords are those it returns when the sink does not throw.
C13_SinkFailureLosesNothing ==
    pc = "structure"
        => /\ outcome = "none"
           /\ RecordPaths = PathsWithQuietSink



(***************************************************************************)
(* quickExport, and the two commands of the extension side by side.        *)
(***************************************************************************)

MaxCommandItems == 2

\* The trees the two commands run on.
CommandTrees ==
    { DirEntry(<<>>, listing, "none") : listing \in SeqsOf(PatternPool, MaxCommandItems) }

\* The editors vscode.window.activeTextEditor may be: the document (fileName,
\* languageId, getText()) and the selection (isEmpty, getText(selection)).
Editors ==
    { [fileName |-> <<"/","w","/","a",".","t","s">>, languageId |-> <<"t","y","p","e","s","c","r","i","p","t">>, text |-> <<"a","b">>,
       selectionIsEmpty |-> TRUE, selected |-> <<>>],
      [fileName |-> <<"/","w","/","a",".","t","s">>, languageId |-> <<"t","y","p","e","s","c","r","i","p","t">>, text |-> <<"a","b">>,
       selectionIsEmpty |-> FALSE, selected |-> <<"b">>] }

QuickFormats == {"Markdown", "Text"}

\* The output string quickExport builds.
quickOutput(editor, fmt) ==
    LET content == IF editor.selectionIsEmpty THEN editor.text ELSE editor.selected
    IN IF fmt = "Text"
       THEN <<"F","I","L","E",":"," ">> \o editor.fileName \o <<"\n", "\n">> \o content
       ELSE <<"#"," ","Q","u","i","c","k"," ","E","x","p","o","r","t","\n","\n","#","#"," ","F","i","l","e",":"," ">> \o editor.fileName \o <<"\n", "\n">>
            \o <<Backtick, Backtick, Backtick>> \o editor.languageId \o <<"\n">>
            \o content \o <<"\n", Backtick, Backtick, Backtick>>

\* if (!editor) throw new Error('No active editor')
QuickStart ==
    /\ quick.pc = "start"
    /\ quick' = IF ~quick.hasEditor
                THEN [quick EXCEPT !.pc = "done", !.rejected = TRUE]
                ELSE [quick EXCEPT !.pc = "pick"]
    /\ UNCHANGED <<fs, hasWorkspace, pc, format, token, stack, files, scannedFiles,
                   totalFiles, items, reports, notifications, formatted, written,
                   outcome, rejected, warnings, cancelledAt, parked, current, atCancel>>

\* showQuickPick(['Markdown', 'Text']): a format, or undefined and quickExport returns.
QuickPick ==
    /\ quick.pc = "pick"
    /\ \E f \in QuickFormats \cup {"undefined"} :
         quick' = [quick EXCEPT !.prompts = quick.prompts + 1,
                                !.format = f,
                                !.pc = IF f = "undefined" THEN "done" ELSE "copy"]
    /\ UNCHANGED <<fs, hasWorkspace, pc, format, token, stack, files, scannedFiles,
                   totalFiles, items, reports, notifications, formatted, written,
                   outcome, rejected, warnings, cancelledAt, parked, current, atCancel>>

\* await vscode.env.clipboard.writeText(output), then showInformationMessage; a
\* rejection of writeText is not caught in quickExport.
QuickCopy ==
    /\ quick.pc = "copy"
    /\ \E ok \in BOOLEAN :
         quick' = IF ok
                  THEN [quick EXCEPT
                          !.clipboard = Append(quick.clipboard,
                                               quickOutput(quick.editor, quick.format)),
                          !.notifications = Append(quick.notifications,
                                                   "Quick export copied to clipboard"),
                          !.pc = "done"]
                  ELSE [quick EXCEPT !.pc = "done", !.rejected = TRUE]
    /\ UNCHANGED <<fs, hasWorkspace, pc, format, token, stack, files, scannedFiles,
                   totalFiles, items, reports, notifications, formatted, written,
                   outcome, rejected, warnings, cancelledAt, parked, current, atCancel>>

\* The two commands are invoked, with or without a workspace folder and an
\* active editor.
InitCommands ==
    /\ hasWorkspace \in BOOLEAN
    /\ fs \in (IF hasWorkspace THEN CommandTrees ELSE {DirEntry(<<>>, <<>>, "io")})
    /\ pc = "start"
    /\ format = "undefined"
    /\ token = FALSE
    /\ stack = <<>>
    /\ files = <<>>
    /\ scannedFiles = 0
    /\ totalFiles = 0
    /\ items = <<>>
    /\ reports = <<>>
    /\ notifications = <<>>
    /\ formatted = <<>>
    /\ written = <<>>
    /\ outcome = "none"
    /\ rejected = FALSE
    /\ warnings = <<>>
    /\ cancelledAt = "never"
    /\ \/ quick = [NoQuickExport EXCEPT !.pc = "start"]
       \/ \E e \in Editors :
            quick = [NoQuickExport EXCEPT !.pc = "start", !.hasEditor = TRUE, !.editor = e]
    /\ parked = NoOtherExport
    /\ current = 1
    /\ atCancel = NoCancellation

NextCommands ==
    \/ ExportStart
    \/ PickFormat
    \/ SaveDialog
    \/ Cancel
    \/ CountReaddir
    \/ CountLoop
    \/ CountStat
    \/ CountReturn
    \/ ScanReaddir
    \/ ScanLoop
    \/ ScanStat
    \/ ScanRead
    \/ ScanReturn
    \/ StructReaddir
    \/ StructLoop
    \/ StructStat
    \/ StructReturn
    \/ WriteFile
    \/ QuickStart
    \/ QuickPick
    \/ QuickCopy

SpecCommands == InitCommands /\ [][NextCommands]_vars

\* C14: without a workspace folder exportProject raises before any I/O: it shows
\* no format prompt and no save dialog, reads no directory and no file, reports no
\* progress and writes no document; without an active editor quickExport raises
\* before any prompt and any clipboard write.
C14_RaisesBeforeAnyIO ==
    /\ ~hasWorkspace
         => /\ pc \in {"start", "done"}
            /\ pc = "done" => rejected /\ outcome = "noWorkspace"
            /\ format = "undefined"
            /\ stack = <<>> /\ files = <<>> /\ items = <<>>
            /\ scannedFiles = 0 /\ totalFiles = 0
            /\ reports = <<>> /\ notifications = <<>> /\ warnings = <<>>
            /\ formatted = <<>> /\ written = <<>>
    /\ ~quick.hasEditor
         => /\ quick.pc \in {"start", "done"}
            /\ quick.pc = "done" => quick.rejected
            /\ quick.prompts = 0
            /\ quick.format = "undefined"
            /\ quick.clipboard = <<>>
            /\ quick.notifications = <<>>

\* Both commands have been invoked without a workspace folder and without an
\* active editor, and both have raised.
C14_Witness ==
    /\ ~hasWorkspace /\ pc = "done" /\ rejected
    /\ ~quick.hasEditor /\ quick.pc = "done" /\ quick.rejected


\* The export has ended after formatOutput returned a document that writeFile did
\* not write.
WriteHasFailed == pc = "done" /\ formatted # <<>> /\ written = <<>>

\* C15: when the document write fails after the scan and the structure traversal
\* have completed, the export ends in the Failed outcome: the last notification is
\* the error 'Export failed' with the cause of the write failure, the promise of
\* exportProject is rejected, and no 'Export complete' notification is emitted.
C15_WriteFailureFailsExport ==
    WriteHasFailed
        => /\ outcome = "failed"
           /\ rejected
           /\ notifications # <<>>
           /\ notifications[Len(notifications)].kind = "error"
           /\ notifications[Len(notifications)].text = "Export failed"
           /\ notifications[Len(notifications)].cause = "writeFile"
           /\ \A k \in 1..Len(notifications) : notifications[k].text # "Export complete"

\* The write failed after a scan that collected a FileRecord and a structure
\* traversal that listed it.
C15_Witness ==
    /\ WriteHasFailed
    /\ Len(files) >= 1
    /\ Len(items) >= 1
    /\ outcome = "failed"



(***************************************************************************)
(* Two exportProject invocations of one ProjectExporter, interleaved.  The *)
(* instance has only read-only fields; files, scannedFiles and totalFiles  *)
(* are locals of each collectFiles call, items of each getProjectStructure *)
(* call, format and token of each exportProject call.  The variables hold  *)
(* the locals of the invocation that runs, parked those of the other one.  *)
(***************************************************************************)

\* One array files used by both invocations.
resumedFilesShared(own, running) == running

\* const files: FileData[] = [] is a local of the collectFiles call: the
\* invocation that resumes finds its own array, whatever the other one did.
resumedFiles(own, running) == own

\* The locals of the invocation that runs.
Locals ==
    [pc |-> pc, format |-> format, token |-> token, stack |-> stack, files |-> files,
     scannedFiles |-> scannedFiles, totalFiles |-> totalFiles, items |-> items,
     reports |-> reports, formatted |-> formatted, outcome |-> outcome,
     rejected |-> rejected, cancelledAt |-> cancelledAt, atCancel |-> atCancel]

\* The invocation that runs is suspended at an await and the other one resumes.
Switch ==
    /\ parked.pc # "idle"
    /\ current' = 3 - current
    /\ parked' = Locals
    /\ pc' = parked.pc
    /\ format' = parked.format
    /\ token' = parked.token
    /\ stack' = parked.stack
    /\ files' = resumedFiles(parked.files, files)
    /\ scannedFiles' = parked.scannedFiles
    /\ totalFiles' = parked.totalFiles
    /\ items' = parked.items
    /\ reports' = parked.reports
    /\ formatted' = parked.formatted
    /\ outcome' = parked.outcome
    /\ rejected' = parked.rejected
    /\ cancelledAt' = parked.cancelledAt
    /\ atCancel' = parked.atCancel
    /\ UNCHANGED <<fs, hasWorkspace, notifications, written, warnings, quick>>

\* Two invocations have each called collectFiles(rootPath, progress, token).
InitTwo ==
    /\ hasWorkspace = TRUE
    /\ fs \in TwoTrees
    /\ pc = "counting"
    /\ format \in {"Markdown", "JSON"}
    /\ token = FALSE
    /\ stack = <<Frame("countFiles", <<>>, 0)>>
    /\ files = <<>>
    /\ scannedFiles = 0
    /\ totalFiles = 0
    /\ items = <<>>
    /\ reports = <<[message |-> "Scanning project...", increment |-> <<0, 1>>]>>
    /\ notifications = <<>>
    /\ formatted = <<>>
    /\ written = <<>>
    /\ outcome = "none"
    /\ rejected = FALSE
    /\ warnings = <<>>
    /\ cancelledAt = "never"
    /\ quick = NoQuickExport
    /\ parked = [pc |-> "counting", format |-> "Text", token |-> FALSE,
                 stack |-> <<Frame("countFiles", <<>>, 0)>>, files |-> <<>>,
                 scannedFiles |-> 0, totalFiles |-> 0, items |-> <<>>,
                 reports |-> <<[message |-> "Scanning project...",
                                increment |-> <<0, 1>>]>>,
                 formatted |-> <<>>, outcome |-> "none", rejected |-> FALSE,
                 cancelledAt |-> "never", atCancel |-> NoCancellation]
    /\ current = 1
    /\ atCancel = NoCancellation

NextTwo ==
    \/ Cancel
    \/ CountReaddir
    \/ CountLoop
    \/ CountStat
    \/ CountReturn
    \/ ScanReaddir
    \/ ScanLoop
    \/ ScanStat
    \/ ScanRead
    \/ ScanReturn
    \/ StructReaddir
    \/ StructLoop
    \/ StructStat
    \/ StructReturn
    \/ WriteFile
    \/ Switch

SpecTwo == InitTwo /\ [][NextTwo]_vars


\* The locals of invocation n.
Invocation(n) == IF current = n THEN Locals ELSE parked

\* The FileRecord collection and the two counters of an invocation.
InProgress(v) == <<v.files, v.scannedFiles, v.totalFiles>>

\* The files the counting pass counts: those that the quick-ignore check lets
\* through, under such directories.
CountedPaths ==
    { p \in AllPaths : /\ ~EntryAt(fs, p).isDir
                       /\ \A n \in 1..Len(p) : p[n] \notin quickIgnoreList }

\* What invocation v holds is what an export running alone holds: records of the
\* tree's accepted files, each captured once, all of them once its scanning pass
\* has returned without cancellation, and counters of its own two passes.
OwnResult(v) ==
    /\ \A k \in 1..Len(v.files) : v.files[k].path \in PathsWithQuietSink
    /\ \A j, k \in 1..Len(v.files) : v.files[j].path = v.files[k].path => j = k
    /\ v.pc \in {"structure", "write"} \/ v.outcome \in {"completed", "failed"}
         => { v.files[k].path : k \in 1..Len(v.files) } = PathsWithQuietSink
    /\ v.totalFiles <= Cardinality(CountedPaths)
    /\ v.scannedFiles <= Cardinality(AllPaths)
    /\ v.pc # "counting" /\ v.cancelledAt # "counting"
         => v.totalFiles = Cardinality(CountedPaths)

\* A step leaves the FileRecord collection and the counters of the invocation
\* that does not run as they are, and a switch hands each invocation its own.
OnlyOwnStepsChange ==
    /\ current' = current => InProgress(parked') = InProgress(parked)
    /\ current' # current
         => /\ InProgress(parked') = <<files, scannedFiles, totalFiles>>
            /\ <<files', scannedFiles', totalFiles'>> = InProgress(parked)

\* C16: two exports interleaved on one ProjectExporter never observe or mutate
\* each other's in-progress state: the FileRecord collection, the scanned counter
\* and the total counter of an invocation are changed only by steps of that
\* invocation, and each invocation returns only the FileRecords it captured itself.
C16_InvocationsAreIsolated ==
    /\ [](OwnResult(Invocation(1)) /\ OwnResult(Invocation(2)))
    /\ [][OnlyOwnStepsChange]_vars

\* Both invocations have returned from collectFiles with a FileRecord of their
\* own, after the second one scanned while the first one was suspended in its
\* scanning pass.
C16_Witness ==
    /\ current = 2
    /\ pc = "structure" /\ Len(files) = 1
    /\ parked.pc = "scanning" /\ Len(parked.files) = 1
    /\ parked.stack # <<>>


\* The order of the positions of an invocation.
Rank(position) ==
    CASE position = "start" -> 0
      [] position = "pickFormat" -> 1
      [] position = "saveDialog" -> 2
      [] position = "counting" -> 3
      [] position = "scanning" -> 4
      [] position = "structure" -> 5
      [] position = "write" -> 6
      [] position = "done" -> 7

\* Where the invocation is tells what has happened so far.
PhaseOrder ==
    /\ Rank(pc) <= 3
         => /\ files = <<>> /\ scannedFiles = 0
            /\ \A k \in 1..Len(stack) : stack[k].fn = "countFiles"
            /\ \A k \in 1..Len(warnings) : warnings[k].text = "Error counting files in"
    /\ Rank(pc) <= 2 => stack = <<>> /\ totalFiles = 0 /\ reports = <<>>
    /\ \A k \in 1..Len(stack) :
         /\ stack[k].fn = "countFiles" => pc = "counting"
         /\ stack[k].fn = "traverse" => pc = "scanning"
         /\ stack[k].fn = "structure" => pc = "structure"
    /\ pc \in {"structure", "write"} \/ items # <<>> \/ formatted # <<>>
         => cancelledAt \notin {"counting", "scanning"}
    /\ pc = "write" => stack = <<>> /\ Len(formatted) = 1 /\ written = <<>>
    /\ written # <<>> => Len(formatted) = 1 /\ outcome = "completed"
    /\ (outcome # "none") <=> (pc = "done")
    /\ pc = "done" => stack = <<>>

\* A step moves the invocation forward, changes the data of a pass only during
\* that pass, and changes nothing once the invocation has an outcome.
ForwardStep ==
    /\ Rank(pc') >= Rank(pc)
    /\ totalFiles' # totalFiles => pc = "counting" /\ pc' = "counting"
    /\ files' # files \/ scannedFiles' # scannedFiles
         => pc = "scanning" /\ pc' = "scanning"
    /\ items' # items => pc = "structure" /\ pc' = "structure"
    /\ formatted' # formatted => pc = "structure" /\ stack = <<>> /\ pc' = "write"
    /\ written' # written => pc = "write"
    /\ outcome # "none"
         => UNCHANGED <<pc, stack, files, scannedFiles, totalFiles, items, reports,
                        formatted, written, outcome, notifications, warnings>>

\* C17: an export invocation moves only forward from Idle through Counting and
\* Scanning to one terminal outcome: nothing is read and no FileRecord appended
\* before the counting pass has returned, the structure traversal starts only
\* after the scanning pass has returned without cancellation, the write starts
\* only after the structure traversal has returned, and no step of a traversal
\* follows a terminal outcome.
C17_PhasesOnlyForward ==
    /\ []PhaseOrder
    /\ [][ForwardStep]_vars

\* An export that went through every phase and completed, with a FileRecord
\* collected and a line of structure listed.
C17_Witness ==
    /\ outcome = "completed"
    /\ Len(files) >= 1
    /\ Len(items) >= 2
    /\ totalFiles >= 2
    /\ Len(written) = 1


\* The reports of the scanning pass, by their index in reports.
ScanReports == { k \in 1..Len(reports) : reports[k].message = "Scanning" }

\* The entries the scanning pass examines (directories and files): those that
\* the quick-ignore check and the pattern check let through, under such
\* directories.
ExaminedPaths ==
    { p \in AllPaths : NotIgnored(p) /\ \A q \in Ancestors(p) : NotIgnored(q) }

\* The scanning pass has returned to exportProject, which went on.
ScanReturned == pc \in {"structure", "write"} \/ formatted # <<>>

\* C18: the scanning pass makes one progress report per examined entry, each
\* with the increment 100 / totalFiles; on a tree without I/O failures and
\* without cancellation totalFiles is the number of files counted under the
\* quick-ignore check only and the number of reports is the number of entries
\* (directories included) that pass the quick-ignore and the pattern check, so
\* the increments sum to 100 * examined / counted, which is below 100 on some
\* trees and above 100 on others.
C18_IncrementsNeedNotSumTo100 ==
    /\ Cardinality(ScanReports) = scannedFiles
    /\ \A k \in ScanReports : reports[k].increment = <<100, totalFiles>>
    /\ NoFaults /\ cancelledAt = "never" /\ (pc = "scanning" \/ ScanReturned)
         => totalFiles = Cardinality(CountedPaths)
    /\ NoFaults /\ cancelledAt = "never" /\ ScanReturned
         => /\ scannedFiles = Cardinality(ExaminedPaths)
            /\ (100 * scannedFiles < 100 * totalFiles)
                  <=> (Cardinality(ExaminedPaths) < Cardinality(CountedPaths))
            /\ (100 * scannedFiles > 100 * totalFiles)
                  <=> (Cardinality(ExaminedPaths) > Cardinality(CountedPaths))

\* The scanning pass has returned with increments that sum to more than 100: a
\* directory was examined and was not counted.
C18_Witness ==
    /\ pc = "structure"
    /\ NoFaults /\ cancelledAt = "never"
    /\ totalFiles >= 1
    /\ 100 * scannedFiles > 100 * totalFiles

\* The scanning pass has returned with increments that sum to less than 100: a
\* file was counted and then pattern-ignored.
C18_BelowReached ==
    /\ pc = "structure"
    /\ NoFaults /\ cancelledAt = "never"
    /\ scannedFiles >= 1
    /\ 100 * scannedFiles < 100 * totalFiles


\* The paths of the tree in depth-first pre-order, each directory in the order
\* of its listing, from entry k of directory d on.
RECURSIVE PreOrderFrom(_, _, _)
PreOrderFrom(d, prefix, k) ==
    IF k > Len(d.items) THEN <<>>
    ELSE LET e == d.items[k]
             p == Append(prefix, e.name)
         IN <<p>>
            \o (IF e.isDir THEN PreOrderFrom(e, p, 1) ELSE <<>>)
            \o PreOrderFrom(d, prefix, k + 1)

ListingOrder == PreOrderFrom(fs, <<>>, 1)

\* The paths of the FileRecords, in the order of the collection.
PathsOf(fileSeq) == [k \in 1..Len(fileSeq) |-> fileSeq[k].path]

\* The FileRecords follow the pre-order: they are at increasing positions of it.
CollectedInListingOrder ==
    \E pos \in [1..Len(files) -> 1..Len(ListingOrder)] :
        /\ \A i, j \in 1..Len(files) : i < j => pos[i] < pos[j]
        /\ \A k \in 1..Len(files) : relativePathOf(ListingOrder[pos[k]]) = files[k].path

\* The acceptable readable files, in pre-order.
AcceptableInListingOrder ==
    LET chosen == SelectSeq(ListingOrder, AcceptableReadableFile)
    IN [k \in 1..Len(chosen) |-> relativePathOf(chosen[k])]

\* The positions of doc where a line begins with opener and ends with closer.
SectionStarts(doc, opener, closer) ==
    { i \in 1..Len(doc) :
        /\ i = 1 \/ doc[i - 1] = "\n"
        /\ i + Len(opener) - 1 <= Len(doc)
        /\ SubSeq(doc, i, i + Len(opener) - 1) = opener
        /\ LET end == CHOOSE j \in i..(Len(doc) + 1) :
                          /\ j = Len(doc) + 1 \/ doc[j] = "\n"
                          /\ \A m \in i..(j - 1) : doc[m] # "\n"
           IN /\ end - i >= Len(opener) + Len(closer)
              /\ SubSeq(doc, end - Len(closer), end - 1) = closer }

\* What stands between opener and closer on the line that begins at i.
SectionPath(doc, i, opener, closer) ==
    LET end == CHOOSE j \in i..(Len(doc) + 1) :
                   /\ j = Len(doc) + 1 \/ doc[j] = "\n"
                   /\ \A m \in i..(j - 1) : doc[m] # "\n"
    IN SubSeq(doc, i + Len(opener), end - Len(closer) - 1)

\* The paths of the section headings of doc, from the top of the document down.
SectionPaths(doc, opener, closer) ==
    LET starts == SectionStarts(doc, opener, closer)
        nth(k) == CHOOSE i \in starts : Cardinality({ j \in starts : j < i }) = k - 1
    IN [k \in 1..Cardinality(starts) |-> SectionPath(doc, nth(k), opener, closer)]

\* The paths of the files of a produced document, read back from the document
\* in the order they stand in it.
SerialisedPaths(call) ==
    IF call.format = "JSON"
    THEN LET parsed == Member(JSONParse(call.output).val, <<"f","i","l","e","s">>)
         IN [k \in 1..Len(parsed.v) |-> Member(parsed.v[k], <<"p","a","t","h">>).v]
    ELSE IF call.format = "Text"
    THEN SectionPaths(call.output, <<"=","=","="," ">>, <<" ","=","=","=">>)
    ELSE SectionPaths(call.output, <<"#","#","#"," ">>, <<>>)

\* The files the Structure lists, top down, as relative paths.
StructureFileOrder ==
    LET listed == SelectSeq(items, LAMBDA item : ~item.isDir)
    IN [k \in 1..Len(listed) |-> relativePathOf(listed[k].path)]

\* C19: the FileRecords stand in the collection in depth-first pre-order of the
\* tree, each directory in the order of its listing (on a tree without I/O
\* failures and without cancellation they are exactly the acceptable files in
\* that order), and the document of each format carries the files in the order
\* of the collection it was given.
C19_FilesKeepListingOrder ==
    /\ CollectedInListingOrder
    /\ NoFaults /\ cancelledAt = "never" /\ ScanReturned
         => PathsOf(files) = AcceptableInListingOrder
    /\ \A k \in 1..Len(formatted) :
         /\ formatted[k].files = files
         /\ SerialisedPaths(formatted[k]) = PathsOf(files)

\* A document was written whose two file sections stand in the listing order
\* (the file of the root before the file of the directory) while the Structure,
\* directories first, lists them the other way round.
C19_Witness ==
    /\ Len(written) = 1 /\ Len(formatted) = 1
    /\ Len(files) = 2
    /\ SerialisedPaths(formatted[1]) = PathsOf(files)
    /\ StructureFileOrder = <<files[2].path, files[1].path>>


\* The token was cancelled while collectFiles ran.
CancelledInCollect == token /\ cancelledAt \in {"counting", "scanning"}

\* What collectFiles has done since the cancellation is at most the rest of the
\* iteration that was in progress: one stat and one read when it was about to
\* stat, one read when it was about to read, nothing when none was in progress.
OnlyTheEntryInProgress ==
    CancelledInCollect
        => /\ Len(files) <= atCancel.files + 1
           /\ scannedFiles <= atCancel.scannedFiles + 1
           /\ totalFiles <= atCancel.totalFiles + 1
           /\ atCancel.busy = "read" => scannedFiles = atCancel.scannedFiles
           /\ atCancel.busy = "no"
                => /\ Len(files) = atCancel.files
                   /\ scannedFiles = atCancel.scannedFiles
                   /\ totalFiles = atCancel.totalFiles

\* With the token cancelled, an iteration that starts returns from its call at
\* the poll, and an iteration past the poll goes on with its stat or its read.
PolledAtIterationStart ==
    token /\ pc \in {"counting", "scanning"} /\ stack # <<>>
        => /\ Top.at = "loop" => stack' = Pop(stack)
           /\ Top.at \in {"stat", "read"} => CountStat \/ ScanStat \/ ScanRead

\* C20: cancellation is looked at only at the start of a directory-entry
\* iteration: the entry in progress finishes, so that from the moment the token
\* is cancelled at most one further FileRecord is appended, and no iteration
\* that starts afterwards performs a stat or a file read.
C20_CancellationIsPolled ==
    /\ []OnlyTheEntryInProgress
    /\ [][PolledAtIterationStart]_vars

\* The token was cancelled while an entry was in progress; that entry's
\* FileRecord was appended after the cancellation, and a later acceptable file
\* was never read.
C20_Witness ==
    /\ outcome = "cancelled" /\ cancelledAt = "scanning"
    /\ atCancel.busy \in {"stat", "read"}
    /\ Len(files) = atCancel.files + 1
    /\ \E p \in AllPaths :
         AcceptableReadableFile(p) /\ relativePathOf(p) \notin RecordPaths


\* C21: every report of the scanning pass carries a finite increment and a
\* scanned counter not greater than the total: once a report has been made,
\* totalFiles is at least 1 and scannedFiles is at most totalFiles.
C21_ReportsFiniteAndBounded ==
    \A k \in ScanReports :
        /\ reports[k].increment[2] >= 1
        /\ Cardinality({ n \in ScanReports : n <= k }) <= reports[k].increment[2]

\* On a tree without I/O failures and without cancellation a report was made
\* with totalFiles = 0: its increment is 100 / 0.
C21_InfiniteIncrement ==
    /\ NoFaults /\ cancelledAt = "never"
    /\ \E k \in ScanReports : reports[k].increment = <<100, 0>>

\* A report was made with a scanned counter above a total of at least 1.
C21_ScannedAboveTotal ==
    /\ NoFaults /\ cancelledAt = "never"
    /\ totalFiles >= 1
    /\ \E k \in ScanReports :
         Cardinality({ n \in ScanReports : n <= k }) > reports[k].increment[2]


(***************************************************************************)
(* Termination.  exportProject has called collectFiles; the steps of       *)
(* collectFiles are continuations of awaited fs promises and synchronous   *)
(* code, and the event loop runs every continuation whose promise has      *)
(* settled: the steps of collectFiles are weakly fair.  Nothing makes the  *)
(* user cancel.                                                            *)
(***************************************************************************)

InitLive ==
    /\ hasWorkspace = TRUE
    /\ fs \in LiveTrees
    /\ pc = "counting"
    /\ format = "Markdown"
    /\ token = FALSE
    /\ stack = <<Frame("countFiles", <<>>, 0)>>
    /\ files = <<>>
    /\ scannedFiles = 0
    /\ totalFiles = 0
    /\ items = <<>>
    /\ reports = <<[message |-> "Scanning project...", increment |-> <<0, 1>>]>>
    /\ notifications = <<>>
    /\ formatted = <<>>
    /\ written = <<>>
    /\ outcome = "none"
    /\ rejected = FALSE
    /\ warnings = <<>>
    /\ cancelledAt = "never"
    /\ quick = NoQuickExport
    /\ parked = NoOtherExport
    /\ current = 1
    /\ atCancel = NoCancellation

\* A step of collectFiles, its return to exportProject included.
CollectStep ==
    \/ CountReaddir
    \/ CountLoop
    \/ CountStat
    \/ CountReturn
    \/ ScanReaddir
    \/ ScanLoop
    \/ ScanStat
    \/ ScanRead
    \/ ScanReturn

NextLive ==
    \/ Cancel
    \/ CollectStep

SpecLive == InitLive /\ [][NextLive]_vars /\ WF_vars(CollectStep)

\* The number of files of the tree.
FileCount == Cardinality({ p \in AllPaths : ~EntryAt(fs, p).isDir })

\* Each pass handles an entry at most once, and the recursion is no deeper than
\* the tree.
EachEntryOnce ==
    /\ totalFiles <= FileCount
    /\ scannedFiles <= Cardinality(AllPaths)
    /\ Len(files) <= FileCount
    /\ Len(items) <= Cardinality(AllPaths)
    /\ \A k \in 1..Len(stack) :
         /\ Len(stack[k].dir) = k - 1
         /\ stack[k].i <= Len(stack[k].list) + 1

\* collectFiles has returned: exportProject has ended the export as cancelled
\* or has gone on to getProjectStructure.
CollectFilesReturned == pc \in {"structure", "done"}

\* C22: on every tree, whenever the token is cancelled and whichever I/O
\* operations fail, the counting pass ends, then the scanning pass ends, and
\* the call of collectFiles returns; each pass handles an entry at most once.
C22_CollectFilesTerminates ==
    /\ []EachEntryOnce
    /\ (pc = "counting") ~> (pc = "scanning")
    /\ (pc = "scanning") ~> CollectFilesReturned
    /\ <>CollectFilesReturned

\* collectFiles has returned after a cancellation during the scanning pass, on
\* a tree where a stat or a readdir had failed before.
C22_Witness ==
    /\ outcome = "cancelled" /\ cancelledAt = "scanning"
    /\ \E k \in 1..Len(warnings) : warnings[k].cause \in {"stat", "readdir"}
    /\ scannedFiles >= 1

====
